---- MODULE Spec2Model ----
(***************************************************************************)
(* Revali: the cache & revalidation engine (cache store, fetch             *)
(* coordinator with dedup / retry / cancellation, notification bus,        *)
(* mutation API) as a state machine.                                       *)
(*                                                                         *)
(* One action is one run of synchronous JavaScript between two suspension  *)
(* points: a public call up to its first pending await, or the             *)
(* continuation that a settled producer, a fired timer or an abort event   *)
(* resumes, up to the end of the handler.                                  *)
(***************************************************************************)
EXTENDS Integers, Sequences, FiniteSets, TLC

\* ---------------------------------------------------------------- bounds
MaxTime == 2
MaxReq == 2
MaxRetries == 1
MaxJoins == 1
MaxVal == 2
MaxErr == 2
MaxBg == 1
MaxSize == 2
MaxTtl == 1
MaxWake == 300
MaxInterval == 2
MaxPollTime == 4
StartTime == 6000
MaxDebounceTime == 16002

\* ---------------------------------------------------------------- values
Keys == {"a", "b", "c"}
NoKey == ""
Subs == {"s1"}
Undefined == 0
Values == 1..MaxVal
NoError == 0
Errors == 1..MaxErr
AbortError == -1
CancellationError == -2
NoSignal == 0
Signals == {1}
NoReq == 0
ReqIds == 1..MaxReq
UserFetcher == 0

\* ---------------------------------------------------------------- options
DefaultRetries == 2
DefaultRetryDelay == 300
DefaultTtl == 300000
DefaultMaxCacheSize == 100
DefaultDedupingInterval == 2000

DEFAULT_OPTIONS ==
  [ retries |-> DefaultRetries,
    retryDelay |-> DefaultRetryDelay,
    ttl |-> DefaultTtl,
    maxCacheSize |-> DefaultMaxCacheSize,
    revalidateOnFocus |-> TRUE,
    revalidateOnReconnect |-> TRUE,
    refreshInterval |-> 0,
    refreshWhenHidden |-> FALSE,
    refreshWhenOffline |-> FALSE,
    dedupingInterval |-> DefaultDedupingInterval,
    abortOnRevalidate |-> FALSE,
    abortTimeout |-> 0,
    signal |-> NoSignal ]

\* The options callers pass, already merged over DEFAULT_OPTIONS as
\* revaliFetch does before it delegates. BaseOptions: no retry, no expiry,
\* no cancellation source.
BaseOptions ==
  [DEFAULT_OPTIONS EXCEPT !.retries = 0, !.retryDelay = 1, !.ttl = 0,
                          !.maxCacheSize = 2]

\* Retries with each cancellation source: none, a timeout, a caller's signal.
CancelOptions ==
  {[BaseOptions EXCEPT !.retries = r, !.abortTimeout = d, !.signal = s] :
     r \in 0..MaxRetries, d \in {0, 1}, s \in {NoSignal} \cup Signals}
  \ {[BaseOptions EXCEPT !.retries = r, !.abortTimeout = 1, !.signal = s] :
       r \in 0..MaxRetries, s \in Signals}

\* Joining or superseding calls.
SupersedeOptions ==
  {[BaseOptions EXCEPT !.abortOnRevalidate = a] : a \in BOOLEAN}

\* Two retries after backoff waits based on 100 ms.
BackoffOptions ==
  {[BaseOptions EXCEPT !.retries = 2, !.retryDelay = 100]}

\* Entries that stay fresh for 5000 ms.
FreshOptions ==
  {[BaseOptions EXCEPT !.ttl = 5000]}

\* A size bound of 1..MaxSize entries.
BoundOptions ==
  {[BaseOptions EXCEPT !.maxCacheSize = m] : m \in 1..MaxSize}

\* Entries with and without a polling interval.
ClearOptions ==
  {[BaseOptions EXCEPT !.refreshInterval = i] : i \in {0, MaxInterval}}

\* Every combination of revalidateOnFocus and revalidateOnReconnect.
RevalidateOptions ==
  {[BaseOptions EXCEPT !.revalidateOnFocus = f, !.revalidateOnReconnect = r] :
     f \in BOOLEAN, r \in BOOLEAN}

\* Retries after a wait of 0 ms, joining or superseding, and a size bound
\* that makes every successful write trim the cache first.
LiveOptions ==
  {[BaseOptions EXCEPT !.retries = MaxRetries, !.retryDelay = 0,
                       !.maxCacheSize = 0, !.abortOnRevalidate = a] :
     a \in BOOLEAN}

\* Expiring or not, retrying or not.
SwrOptions ==
  {[BaseOptions EXCEPT !.ttl = t, !.retries = r] : t \in {0, 1}, r \in 0..MaxRetries}

\* Polled entries: a refresh every millisecond, with a dedupingInterval
\* shorter and longer than that, and each pause policy.
PollOptions ==
  {[BaseOptions EXCEPT !.refreshInterval = 1, !.dedupingInterval = 2 * d,
                       !.refreshWhenHidden = h, !.refreshWhenOffline = f] :
     d \in {0, 1}, h \in BOOLEAN, f \in BOOLEAN}
  \ {[BaseOptions EXCEPT !.refreshInterval = 1, !.dedupingInterval = 2 * d,
                         !.refreshWhenHidden = h, !.refreshWhenOffline = h] :
       d \in {0, 1}, h \in BOOLEAN}

\* Polled entries fetched with and without a caller's signal.
SignalOptions ==
  {[BaseOptions EXCEPT !.refreshInterval = 1, !.dedupingInterval = 0, !.signal = s] :
     s \in {NoSignal} \cup Signals}

\* Polled entries with the default pause policy.
TokenOptions == [BaseOptions EXCEPT !.refreshInterval = 1]

\* Every set of inputs of combineSignals: the request's own controller
\* always, a timeout signal or not, a caller's signal or not.
CombineOptions ==
  {[BaseOptions EXCEPT !.abortTimeout = d, !.signal = s] :
     d \in {0, 1}, s \in {NoSignal} \cup Signals}

\* ---------------------------------------------------------------- state
VARIABLES
  now,               \* Date.now()
  cache,             \* cache.ts `cache`: entries in Map insertion order
  pollingTasks,      \* polling `pollingTasks`
  subscribers,       \* subscription `subscribers`: key -> callbacks in insertion order
  subscriberKeys,    \* the keys the `subscribers` Map holds a Set for
  inflightRequests,  \* fetcher `inflightRequests`: key -> request (promise)
  controllers,       \* CancellationManager.controllers: key -> request owning the controller
  cancelledKeys,     \* CancellationManager.cancelledKeys
  requests,          \* the fetchWithDedup activations that have not finished
  extAborted,        \* caller-owned AbortSignals: aborted?
  isPageHidden,      \* polling `isPageHidden`
  isOffline,         \* polling `isOffline`
  lastFocusTime,     \* revalidation `lastFocusTime`
  lastOnlineTime,    \* revalidation `lastOnlineTime`
  polled,            \* history: key -> times of the last two fetchWithDedup calls
                     \* made by the key's polling timer, -1 for a call not made yet
  background,        \* setTimeout(.., 0) refreshes not yet run
  obs                \* what the last step did: notifications, settlements, return value

vars == <<now, cache, pollingTasks, subscribers, subscriberKeys, inflightRequests, controllers,
          cancelledKeys, requests, extAborted, isPageHidden, isOffline,
          lastFocusTime, lastOnlineTime, polled, background, obs>>

\* The state of the page listeners and the polling history.
pageVars == <<isPageHidden, isOffline, lastFocusTime, lastOnlineTime, polled>>

\* What only the listeners' own code changes: the page state and the key set
\* of the subscribers Map.
listenerVars == <<pageVars, subscriberKeys>>

\* ---------------------------------------------------------------- cache store
KeyIndex(c, k) ==
  IF \E i \in 1..Len(c) : c[i].key = k
  THEN CHOOSE i \in 1..Len(c) : c[i].key = k
  ELSE 0

hasCacheEntry(c, k) == KeyIndex(c, k) # 0

getCacheEntry(c, k) == c[KeyIndex(c, k)]

MapSet(c, k, e) ==
  IF hasCacheEntry(c, k) THEN [c EXCEPT ![KeyIndex(c, k)] = e] ELSE Append(c, e)

MapDelete(c, k) == SelectSeq(c, LAMBDA e : e.key # k)

CacheKeys(c) == {c[i].key : i \in 1..Len(c)}

\* A stop that leaves the task running.
KeepPolling(tasks, k) == tasks

\* clearInterval(task.intervalId); pollingTasks.delete(key)
stopPolling(tasks, k) == {t \in tasks : t.key # k}

hasActivePolling(tasks, k) == \E t \in tasks : t.key = k

\* intervalId, the handle of the setInterval timer, is the time of the
\* timer's next firing.
startPolling(tasks, k, options, t) ==
  LET stopped == stopPolling(tasks, k)
  IN IF options.refreshInterval <= 0
     THEN stopped
     ELSE stopped \cup {[key |-> k, intervalId |-> t + options.refreshInterval,
                         options |-> options, lastPolledTime |-> t,
                         isPaused |-> FALSE]}

\* A store is the triple the cache operations read and write:
\* [cache, polling, now].
setCacheEntry(st, k, e) ==
  [st EXCEPT !.cache = MapSet(@, k, e),
             !.polling = IF e.options.refreshInterval > 0
                         THEN startPolling(@, k, e.options, st.now)
                         ELSE @]

\* An expiry test without the special case of ttl 0.
isExpiredZeroTtl(e, t) == t - e.timestamp > e.options.ttl

\* An entry that expires as soon as its age reaches the ttl.
isExpiredAtTtl(e, t) ==
  IF e.options.ttl = 0 THEN FALSE ELSE t - e.timestamp >= e.options.ttl

\* ttl === 0 never expires; otherwise Date.now() - entry.timestamp > ttl
isExpired(e, t) ==
  IF e.options.ttl = 0 THEN FALSE ELSE t - e.timestamp > e.options.ttl

\* A scan that stops at the first entry older than the clock instead of
\* looking for the oldest one.
RECURSIVE FirstOlderScan(_, _, _, _)
FirstOlderScan(c, i, oldestKey, oldestTimestamp) ==
  IF i > Len(c) THEN oldestKey
  ELSE IF c[i].timestamp < oldestTimestamp
       THEN c[i].key
       ELSE FirstOlderScan(c, i + 1, oldestKey, oldestTimestamp)

\* for (const [key, entry] of cache) if (entry.timestamp < oldestTimestamp) ...
RECURSIVE OldestScan(_, _, _, _)
OldestScan(c, i, oldestKey, oldestTimestamp) ==
  IF i > Len(c) THEN oldestKey
  ELSE IF c[i].timestamp < oldestTimestamp
       THEN OldestScan(c, i + 1, c[i].key, c[i].timestamp)
       ELSE OldestScan(c, i + 1, oldestKey, oldestTimestamp)

evictOldestEntry(st) ==
  LET oldestKey == OldestScan(st.cache, 1, NoKey, st.now)
  IN IF oldestKey # NoKey
     THEN [st EXCEPT !.polling = stopPolling(@, oldestKey),
                     !.cache = MapDelete(@, oldestKey)]
     ELSE st

\* while (cache.size > maxSize) evictOldestEntry(). A pass that finds no entry
\* older than Date.now() evicts nothing and the loop runs on until the clock
\* has advanced: that is the st.now + 1.
RECURSIVE ensureCacheSize(_, _)
ensureCacheSize(st, maxSize) ==
  IF Len(st.cache) > maxSize
  THEN LET after == evictOldestEntry(st)
       IN IF Len(after.cache) = Len(st.cache)
          THEN ensureCacheSize([st EXCEPT !.now = @ + 1], maxSize)
          ELSE ensureCacheSize(after, maxSize)
  ELSE st

Store == [cache |-> cache, polling |-> pollingTasks, now |-> now]

\* ---------------------------------------------------------------- notification bus
\* Callbacks that throw whenever they are called.
ThrowingSubs == {"t1", "t2"}

SubscriberThrows(fn) == fn \in ThrowingSubs

\* A forEach without the try/catch: the exception of the first throwing
\* callback ends the loop.
notifyUncaught(c, subs, k, error) ==
  LET throwers == {i \in 1..Len(subs[k]) : SubscriberThrows(subs[k][i])}
      last == IF throwers = {}
              THEN Len(subs[k])
              ELSE CHOOSE i \in throwers : \A j \in throwers : i <= j
  IN [i \in 1..last |->
        [key |-> k, sub |-> subs[k][i],
         data |-> IF hasCacheEntry(c, k) THEN getCacheEntry(c, k).data ELSE Undefined,
         error |-> error]]

\* notify(key, error): one call per subscriber of key, in Set insertion order,
\* with the data of the entry as it is now. Each call sits in its own
\* try/catch, so a callback that throws is logged and the loop goes on.
notify(c, subs, k, error) ==
  [i \in 1..Len(subs[k]) |->
     [key |-> k, sub |-> subs[k][i],
      data |-> IF hasCacheEntry(c, k) THEN getCacheEntry(c, k).data ELSE Undefined,
      error |-> error]]

\* ---------------------------------------------------------------- requests
\* One record per activation of fetchWithDedup that created a promise.
\*   phase        idle (slot free) | fetching (awaiting the producer) |
\*                backoff (awaiting the retry timer) |
\*                cancelled (the inner promise is rejected with a
\*                CancellationError, the outer continuation has not run yet)
\*   ctrl, tsig   aborted flags of the request's own controller and of its
\*                timeout signal; combined is the flag of combinedSignal
\*   invocations, joins, thrown   history: producer calls made, calls that
\*                were handed this promise, the producer's latest rejection
IdleRequest ==
  [ phase |-> "idle", key |-> NoKey, fetcher |-> UserFetcher,
    options |-> DEFAULT_OPTIONS, attempt |-> 0, lastError |-> NoError,
    ctrl |-> FALSE, tsig |-> FALSE, deadline |-> 0, combined |-> FALSE,
    wakeAt |-> 0, delay |-> 0, invocations |-> 0, joins |-> 0,
    thrown |-> NoError ]

Live(r) == r.phase # "idle"

\* An 'abort' listener of the retry wait that clears the timer and leaves
\* the wait's promise unsettled.
backoffAbortSilent(r) ==
  IF r.phase = "backoff" THEN [r EXCEPT !.phase = "stalled"] ELSE r

\* The 'abort' listener of the retry wait: clearTimeout and reject.
backoffAbortHandler(r) ==
  IF r.phase = "backoff" THEN [r EXCEPT !.phase = "cancelled"] ELSE r

\* The 'abort' listener combineSignals puts on every input signal.
combinedAbortHandler(r) ==
  IF ~r.combined THEN backoffAbortHandler([r EXCEPT !.combined = TRUE]) ELSE r

abortController(r) == combinedAbortHandler([r EXCEPT !.ctrl = TRUE])

abortTimeoutSignal(r) == combinedAbortHandler([r EXCEPT !.tsig = TRUE])

\* A combination that only listens for aborts to come.
combineSignalsLate(ctrlAborted, hasTimeout, timeoutAborted, signal, ext) == FALSE

\* combineSignals at creation: aborted if any defined input is aborted already.
combineSignals(ctrlAborted, hasTimeout, timeoutAborted, signal, ext) ==
  \/ ctrlAborted
  \/ (hasTimeout /\ timeoutAborted)
  \/ (signal # NoSignal /\ ext[signal])

\* ---------------------------------------------------------------- cancellation registry
\* A manager is [controllers, cancelledKeys, requests, ret].
Manager ==
  [controllers |-> controllers, cancelledKeys |-> cancelledKeys,
   requests |-> requests, ret |-> FALSE]

\* A cancel that records the key and reports success whether or not there is
\* a controller to abort.
cancelUnconditional(m, k) ==
  LET c == m.controllers[k]
  IN [ controllers |-> [m.controllers EXCEPT ![k] = NoReq],
       cancelledKeys |-> m.cancelledKeys \cup {k},
       requests |-> IF c # NoReq
                    THEN [m.requests EXCEPT ![c] = abortController(@)]
                    ELSE m.requests,
       ret |-> TRUE ]

\* A cancel that aborts and drops the controller of every key.
cancelEveryKey(m, k) ==
  [ controllers |-> [j \in Keys |-> NoReq],
    cancelledKeys |-> m.cancelledKeys \cup {j \in Keys : m.controllers[j] # NoReq},
    requests |-> [id \in ReqIds |->
                    IF \E j \in Keys : m.controllers[j] = id
                    THEN abortController(m.requests[id])
                    ELSE m.requests[id]],
    ret |-> m.controllers[k] # NoReq ]

\* cancel(key): abort the key's controller if there is one that is not
\* aborted, record the key, drop the controller.
cancel(m, k) ==
  LET c == m.controllers[k]
  IN IF c # NoReq /\ ~m.requests[c].ctrl
     THEN [ controllers |-> [m.controllers EXCEPT ![k] = NoReq],
            cancelledKeys |-> m.cancelledKeys \cup {k},
            requests |-> [m.requests EXCEPT ![c] = abortController(@)],
            ret |-> TRUE ]
     ELSE [m EXCEPT !.ret = FALSE]

\* A create that registers the new controller over the old one without
\* aborting it.
createOverLive(m, k, id) ==
  [m EXCEPT !.cancelledKeys = @ \ {k}, !.controllers[k] = id]

\* A create that registers the new controller and keeps the cancelled flag.
createKeepingFlag(m, k, id) ==
  LET m1 == cancel(m, k)
  IN [m1 EXCEPT !.controllers[k] = id]

\* create(key): cancel the existing controller, forget the cancelled flag,
\* register the controller of request id.
create(m, k, id) ==
  LET m1 == cancel(m, k)
  IN [m1 EXCEPT !.cancelledKeys = @ \ {k}, !.controllers[k] = id]

cancelAllKeys(m) == {k \in Keys : m.controllers[k] # NoReq /\ ~m.requests[m.controllers[k]].ctrl}

cancelAll(m) ==
  [ controllers |-> [k \in Keys |-> NoReq],
    cancelledKeys |-> m.cancelledKeys \cup cancelAllKeys(m),
    requests |-> [id \in ReqIds |->
                    IF \E k \in cancelAllKeys(m) : m.controllers[k] = id
                    THEN abortController(m.requests[id])
                    ELSE m.requests[id]],
    ret |-> Cardinality(cancelAllKeys(m)) ]

\* A cleanup that leaves the controller registered.
cleanupKeeping(ctrls, k) == ctrls

\* cleanup(key): controllers.delete(key), no abort
cleanup(ctrls, k) == [ctrls EXCEPT ![k] = NoReq]

isCancelled(k) == k \in cancelledKeys

\* getController(key): the registered controller, NoReq for undefined.
getController(k) == controllers[k]

\* isRequestCancelled(key): controller?.signal.aborted ?? false
isRequestCancelled(k) ==
  IF getController(k) = NoReq THEN FALSE ELSE requests[getController(k)].ctrl

isCancellationError(e) == e = CancellationError \/ e = AbortError

createCancellationError(k, original) == CancellationError

\* ---------------------------------------------------------------- observations
\* updater, revalidate: the arguments of a mutate call.
NoRet ==
  [op |-> "none", key |-> NoKey, data |-> Undefined, req |-> NoReq,
   started |-> FALSE, flag |-> FALSE, count |-> 0,
   updater |-> "none", revalidate |-> FALSE, sub |-> "none"]

\* obs.notified  the subscriber calls the step made, in order
\* obs.settled   the requests whose promise the step settled (at most one)
\* obs.invoked   the requests whose producer the step called
\* obs.ret       what the step's public call returned
NoObs == [notified |-> <<>>, settled |-> <<>>, invoked |-> {}, ret |-> NoRet]

Resolved(v) == [kind |-> "resolved", value |-> v, error |-> NoError]

Rejected(e) == [kind |-> "rejected", value |-> Undefined, error |-> e]

\* ---------------------------------------------------------------- fetch coordinator
\* A backoff that waits retryDelay before every retry.
ConstantDelay(retryDelay, attempt) == retryDelay

\* retryDelay * Math.pow(2, attempt - 1), attempt already incremented.
RECURSIVE Pow2(_)
Pow2(n) == IF n <= 0 THEN 1 ELSE 2 * Pow2(n - 1)

BackoffDelay(retryDelay, attempt) == retryDelay * Pow2(attempt - 1)

\* A retry loop that calls the producer without looking at the signal.
StartAttemptUnchecked(r) ==
  [r EXCEPT !.phase = "fetching", !.invocations = @ + 1]

\* Top of the retry loop: the abort check, then fetcher(combinedSignal).
StartAttempt(r) ==
  IF r.combined
  THEN [r EXCEPT !.phase = "cancelled"]
  ELSE [r EXCEPT !.phase = "fetching", !.invocations = @ + 1]

\* A catch block that allows one attempt more than options.retries.
InnerCatchExtraRetry(r, e, t) ==
  LET r1 == [r EXCEPT !.thrown = e]
  IN IF isCancellationError(e)
     THEN [req |-> r1, done |-> TRUE, error |-> createCancellationError(r.key, e)]
     ELSE LET r2 == [r1 EXCEPT !.lastError = e]
          IN IF r2.attempt > r2.options.retries
             THEN [req |-> r2, done |-> TRUE, error |-> r2.lastError]
             ELSE LET r3 == [r2 EXCEPT !.attempt = @ + 1]
                      delay == BackoffDelay(r3.options.retryDelay, r3.attempt)
                  IN IF r3.combined
                     THEN [req |-> r3, done |-> TRUE,
                           error |-> createCancellationError(r.key, NoError)]
                     ELSE [req |-> [r3 EXCEPT !.phase = "backoff", !.delay = delay,
                                              !.wakeAt = t + delay],
                           done |-> FALSE, error |-> NoError]

\* The catch block of the retry loop for a producer that rejected with e at
\* time t: [req, done, error]. done: the inner promise rejects with error.
InnerCatch(r, e, t) ==
  LET r1 == [r EXCEPT !.thrown = e]
  IN IF isCancellationError(e)
     THEN [req |-> r1, done |-> TRUE, error |-> createCancellationError(r.key, e)]
     ELSE LET r2 == [r1 EXCEPT !.lastError = e]
          IN IF r2.attempt >= r2.options.retries
             THEN [req |-> r2, done |-> TRUE, error |-> r2.lastError]
             ELSE LET r3 == [r2 EXCEPT !.attempt = @ + 1]
                      delay == BackoffDelay(r3.options.retryDelay, r3.attempt)
                  IN IF r3.combined
                     THEN [req |-> r3, done |-> TRUE,
                           error |-> createCancellationError(r.key, NoError)]
                     ELSE [req |-> [r3 EXCEPT !.phase = "backoff", !.delay = delay,
                                              !.wakeAt = t + delay],
                           done |-> FALSE, error |-> NoError]

\* try { result = await promise; ensureCacheSize; setCacheEntry; notify }
OuterSuccess(st, subs, r, result) ==
  LET trimmed == ensureCacheSize(st, r.options.maxCacheSize)
      entry == [key |-> r.key, data |-> result, timestamp |-> trimmed.now,
                error |-> NoError, fetcher |-> r.fetcher, options |-> r.options]
      written == setCacheEntry(trimmed, r.key, entry)
  IN [store |-> written,
      notified |-> notify(written.cache, subs, r.key, NoError),
      outcome |-> Resolved(result)]

\* A failure path that replaces the entry, losing the data it held.
OuterFailureDroppingData(st, subs, r, err) ==
  IF isCancellationError(err)
  THEN [store |-> st, notified |-> <<>>, outcome |-> Rejected(err)]
  ELSE LET written == setCacheEntry(st, r.key,
                        [key |-> r.key, data |-> Undefined, timestamp |-> st.now,
                         error |-> err, fetcher |-> r.fetcher, options |-> r.options])
       IN [store |-> written,
           notified |-> notify(written.cache, subs, r.key, err),
           outcome |-> Rejected(err)]

\* catch (error) { if (!isCancellationError(err)) { record the error; notify }
\* throw err }
OuterFailure(st, subs, r, err) ==
  IF isCancellationError(err)
  THEN [store |-> st, notified |-> <<>>, outcome |-> Rejected(err)]
  ELSE LET written ==
             IF hasCacheEntry(st.cache, r.key)
             THEN [st EXCEPT !.cache[KeyIndex(st.cache, r.key)] =
                               [@ EXCEPT !.error = err, !.timestamp = st.now]]
             ELSE LET trimmed == ensureCacheSize(st, r.options.maxCacheSize)
                  IN setCacheEntry(trimmed, r.key,
                       [key |-> r.key, data |-> Undefined,
                        timestamp |-> trimmed.now, error |-> err,
                        fetcher |-> r.fetcher, options |-> r.options])
       IN [store |-> written,
           notified |-> notify(written.cache, subs, r.key, err),
           outcome |-> Rejected(err)]

\* hadError: the key's entry held an error when the continuation started.
SettleRecord(id, r, producer, inner, outer) ==
  [req |-> id, key |-> r.key,
   hadError |-> hasCacheEntry(cache, r.key) /\ getCacheEntry(cache, r.key).error # NoError,
   joins |-> r.joins, invocations |-> r.invocations,
   attempt |-> r.attempt, retries |-> r.options.retries, aborted |-> r.combined,
   producer |-> producer, thrown |-> r.thrown, inner |-> inner, outer |-> outer]

\* The outer continuation with its finally block: the store and the
\* notifications are those of out, the key leaves the in-flight map, the
\* controller registered for the key is dropped, the request is over.
Finish(id, r, producer, inner, out) ==
  /\ IF out.store.now = now THEN TRUE ELSE out.store.now <= MaxTime
  /\ now' = out.store.now
  /\ cache' = out.store.cache
  /\ pollingTasks' = out.store.polling
  /\ inflightRequests' = [inflightRequests EXCEPT ![r.key] = NoReq]
  /\ controllers' = cleanup(controllers, r.key)
  /\ requests' = [requests EXCEPT ![id] = IdleRequest]
  /\ obs' = [NoObs EXCEPT !.notified = out.notified,
                          !.settled = <<SettleRecord(id, r, producer, inner, out.outcome)>>]
  /\ UNCHANGED <<subscribers, cancelledKeys, extAborted, listenerVars, background>>

\* ---------------------------------------------------------------- actions
FreeIds == {id \in ReqIds : ~Live(requests[id])}

FirstFreeId == CHOOSE id \in FreeIds : \A other \in FreeIds : id <= other

\* if (inflightRequests.has(key)) return inflightRequests.get(key)
\* joins counts the calls that joined while the promise was still pending.
Pending(r) == r.phase \in {"fetching", "backoff"}

\* A join that calls the producer again before it hands out the promise.
JoinInvokingProducer(k, id, op) ==
  /\ Pending(requests[id]) => requests[id].joins < MaxJoins
  /\ requests' = [requests EXCEPT
                    ![id].joins = IF Pending(requests[id]) THEN @ + 1 ELSE @,
                    ![id].invocations = @ + 1]
  /\ obs' = [NoObs EXCEPT !.invoked = {id},
                          !.ret = [NoRet EXCEPT !.op = op, !.key = k, !.req = id]]
  /\ UNCHANGED <<now, cache, subscribers, inflightRequests,
                 controllers, cancelledKeys, extAborted>>

JoinInflight(k, id, op) ==
  /\ Pending(requests[id]) => requests[id].joins < MaxJoins
  /\ requests' = [requests EXCEPT ![id].joins = IF Pending(requests[id]) THEN @ + 1 ELSE @]
  /\ obs' = [NoObs EXCEPT !.ret = [NoRet EXCEPT !.op = op, !.key = k, !.req = id]]
  /\ UNCHANGED <<now, cache, subscribers, inflightRequests,
                 controllers, cancelledKeys, extAborted>>

\* A new request: controller, combined signal, first pass of the retry loop
\* up to the await, inflightRequests.set.
StartRequest(k, f, o, op, m, inflight, id) ==
  LET registered == create(m, k, id)
      hasTimeout == o.abortTimeout > 0
      fresh == [IdleRequest EXCEPT
                  !.key = k, !.fetcher = f, !.options = o,
                  !.deadline = IF hasTimeout THEN now + o.abortTimeout ELSE 0,
                  !.combined = combineSignals(FALSE, hasTimeout, FALSE, o.signal,
                                              extAborted)]
      started == StartAttempt(fresh)
  IN /\ requests' = [registered.requests EXCEPT ![id] = started]
     /\ controllers' = registered.controllers
     /\ cancelledKeys' = registered.cancelledKeys
     /\ inflightRequests' = [inflight EXCEPT ![k] = id]
     /\ obs' = [NoObs EXCEPT
                  !.invoked = IF started.phase = "fetching" THEN {id} ELSE {},
                  !.ret = [NoRet EXCEPT !.op = op, !.key = k, !.req = id,
                                        !.started = TRUE]]
     /\ UNCHANGED <<now, cache, subscribers, extAborted>>

\* fetchWithDedup(key, fetcher, options) up to its first await. It leaves
\* `background`, `pollingTasks` and the listeners' state to its caller.
fetchWithDedup(k, f, o, op) ==
  LET superseding == o.abortOnRevalidate /\ inflightRequests[k] # NoReq
      m == IF superseding THEN cancel(Manager, k) ELSE Manager
      inflight == IF superseding
                  THEN [inflightRequests EXCEPT ![k] = NoReq]
                  ELSE inflightRequests
  IN IF inflight[k] # NoReq
     THEN JoinInflight(k, inflight[k], op)
     ELSE /\ FreeIds # {}
          /\ StartRequest(k, f, o, op, m, inflight, FirstFreeId)

FetchNow(k, o) ==
  /\ fetchWithDedup(k, UserFetcher, o, "fetchWithDedup")
  /\ UNCHANGED <<pollingTasks, listenerVars, background>>

\* fetchWithDedup while the clock leaves room for the wait that the
\* ensureCacheSize of every request under way may need.
FetchNowInTime(k, o) ==
  /\ now + Cardinality({id \in ReqIds : Live(requests[id])}) < MaxTime
  /\ FetchNow(k, o)

\* The producer of request id resolves with v.
ProducerResolve(id, v) ==
  LET r == requests[id]
  IN /\ r.phase = "fetching"
     /\ r.fetcher = UserFetcher \/ r.fetcher = v
     /\ Finish(id, r, "resolved", Resolved(v), OuterSuccess(Store, subscribers, r, v))

\* The producer of request id rejects with e: an ordinary error or the
\* platform's AbortError.
ProducerReject(id, e) ==
  LET r == requests[id]
      caught == InnerCatch(r, e, now)
  IN /\ r.phase = "fetching"
     /\ r.fetcher = UserFetcher
     /\ IF caught.done
        THEN Finish(id, caught.req, "rejected", Rejected(caught.error),
                    OuterFailure(Store, subscribers, caught.req, caught.error))
        ELSE /\ requests' = [requests EXCEPT ![id] = caught.req]
             /\ obs' = NoObs
             /\ UNCHANGED <<now, cache, pollingTasks, subscribers, inflightRequests,
                            controllers, cancelledKeys, extAborted, listenerVars, background>>

\* The retry timer of request id fires: next pass of the loop.
BackoffElapsed(id) ==
  LET r == requests[id]
      started == StartAttempt(r)
  IN /\ r.phase = "backoff"
     /\ now >= r.wakeAt
     /\ requests' = [requests EXCEPT ![id] = started]
     /\ obs' = [NoObs EXCEPT !.invoked = IF started.phase = "fetching" THEN {id} ELSE {}]
     /\ UNCHANGED <<now, cache, pollingTasks, subscribers, inflightRequests,
                    controllers, cancelledKeys, extAborted, listenerVars, background>>

\* The outer continuation of a request whose inner promise was rejected with
\* a CancellationError by the abort check or by the aborted retry wait.
SettleCancelled(id) ==
  LET r == requests[id]
      err == createCancellationError(r.key, NoError)
  IN /\ r.phase = "cancelled"
     /\ Finish(id, r, "none", Rejected(err), OuterFailure(Store, subscribers, r, err))

\* cancel(key) / cancelRequest(key)
Cancel(k) ==
  LET m == cancel(Manager, k)
  IN /\ requests' = m.requests
     /\ controllers' = m.controllers
     /\ cancelledKeys' = m.cancelledKeys
     /\ obs' = [NoObs EXCEPT !.ret = [NoRet EXCEPT !.op = "cancel", !.key = k,
                                                  !.flag = m.ret]]
     /\ UNCHANGED <<now, cache, pollingTasks, subscribers, inflightRequests,
                    extAborted, listenerVars, background>>

\* cancellationManager.create(key) called by application code. The
\* controller it returns takes a request slot of its own, in phase "token":
\* a controller with no fetch behind it.
CreateToken(k) ==
  /\ FreeIds # {}
  /\ LET id == FirstFreeId
         m == create(Manager, k, id)
     IN /\ requests' = [m.requests EXCEPT
                          ![id] = [IdleRequest EXCEPT !.phase = "token", !.key = k]]
        /\ controllers' = m.controllers
        /\ cancelledKeys' = m.cancelledKeys
        /\ obs' = [NoObs EXCEPT !.ret = [NoRet EXCEPT !.op = "create", !.key = k,
                                                     !.req = id]]
  /\ UNCHANGED <<now, cache, pollingTasks, subscribers, inflightRequests,
                 extAborted, listenerVars, background>>

\* The application drops a controller that is no longer registered.
ReleaseToken(id) ==
  /\ requests[id].phase = "token"
  /\ controllers[requests[id].key] # id
  /\ requests' = [requests EXCEPT ![id] = IdleRequest]
  /\ obs' = NoObs
  /\ UNCHANGED <<now, cache, pollingTasks, subscribers, inflightRequests, controllers,
                 cancelledKeys, extAborted, listenerVars, background>>

\* cancelAll() / cancelAllRequests()
CancelAll ==
  LET m == cancelAll(Manager)
  IN /\ requests' = m.requests
     /\ controllers' = m.controllers
     /\ cancelledKeys' = m.cancelledKeys
     /\ obs' = [NoObs EXCEPT !.ret = [NoRet EXCEPT !.op = "cancelAll", !.count = m.ret]]
     /\ UNCHANGED <<now, cache, pollingTasks, subscribers, inflightRequests,
                    extAborted, listenerVars, background>>

\* The timer of createTimeoutSignal(abortTimeout) fires for request id.
TimeoutFires(id) ==
  LET r == requests[id]
  IN /\ Live(r)
     /\ r.deadline # 0
     /\ ~r.tsig
     /\ now >= r.deadline
     /\ requests' = [requests EXCEPT ![id] = abortTimeoutSignal(r)]
     /\ obs' = NoObs
     /\ UNCHANGED <<now, cache, pollingTasks, subscribers, inflightRequests,
                    controllers, cancelledKeys, extAborted, listenerVars, background>>

\* The caller aborts its own controller: every request combined with that
\* signal hears it.
ExternalAbort(s) ==
  /\ ~extAborted[s]
  /\ extAborted' = [extAborted EXCEPT ![s] = TRUE]
  /\ requests' = [id \in ReqIds |->
                    IF Live(requests[id]) /\ requests[id].options.signal = s
                    THEN combinedAbortHandler(requests[id])
                    ELSE requests[id]]
  /\ obs' = NoObs
  /\ UNCHANGED <<now, cache, pollingTasks, subscribers, inflightRequests,
                 controllers, cancelledKeys, listenerVars, background>>

\* A timer that runs the refresh with the default options.
ScheduleWithDefaults(tasks, k, f, o) ==
  tasks \cup {[key |-> k, fetcher |-> f, options |-> DEFAULT_OPTIONS]}

\* setTimeout(() => fetchWithDedup(key, fetcher, options), 0)
Schedule(tasks, k, f, o) == tasks \cup {[key |-> k, fetcher |-> f, options |-> o]}

\* A revaliFetch that goes to the coordinator whatever the cache holds.
RevaliFetchUncached(k, o) ==
  /\ fetchWithDedup(k, UserFetcher, o, "revaliFetch")
  /\ UNCHANGED <<pollingTasks, listenerVars, background>>

\* revaliFetch(key, fetcher, options)
RevaliFetch(k, o) ==
  IF ~hasCacheEntry(cache, k) \/ isExpired(getCacheEntry(cache, k), now)
  THEN /\ fetchWithDedup(k, UserFetcher, o, "revaliFetch")
       /\ UNCHANGED <<pollingTasks, listenerVars, background>>
  ELSE IF getCacheEntry(cache, k).data # Undefined
       THEN /\ Cardinality(Schedule(background, k, UserFetcher, o)) <= MaxBg
            /\ background' = Schedule(background, k, UserFetcher, o)
            /\ obs' = [NoObs EXCEPT
                         !.ret = [NoRet EXCEPT !.op = "revaliFetch", !.key = k,
                                               !.flag = TRUE,
                                               !.data = getCacheEntry(cache, k).data]]
            /\ UNCHANGED <<now, cache, pollingTasks, subscribers, inflightRequests,
                           controllers, cancelledKeys, requests, extAborted, listenerVars>>
       ELSE /\ fetchWithDedup(k, UserFetcher, o, "revaliFetch")
            /\ UNCHANGED <<pollingTasks, listenerVars, background>>

\* The setTimeout(.., 0) callback of a background refresh.
RunBackground(t) ==
  /\ t \in background
  /\ fetchWithDedup(t.key, t.fetcher, t.options, "background")
  /\ background' = background \ {t}
  /\ UNCHANGED <<pollingTasks, listenerVars>>

\* An update that leaves the entry's error where it is.
UpdateEntryKeepingError(e, newData, t) ==
  [e EXCEPT !.data = newData, !.timestamp = t]

\* entry.data = newData; entry.timestamp = Date.now(); delete entry.error
UpdateEntry(e, newData, t) ==
  [e EXCEPT !.data = newData, !.timestamp = t, !.error = NoError]

\* A mutate that revalidates whatever shouldRevalidate says.
AlwaysRevalidate(shouldRevalidate, existed) == existed

\* if (shouldRevalidate && entry?.fetcher)
ShouldRevalidate(shouldRevalidate, existed) == shouldRevalidate /\ existed

\* mutate from the point where newData is known: the write, notify(key), the
\* revalidation timer, return newData.
MutateStep(k, newData, shouldRevalidate, updater) ==
  LET existed == hasCacheEntry(cache, k)
      entry == getCacheEntry(cache, k)
      written ==
        IF existed
        THEN [Store EXCEPT !.cache[KeyIndex(cache, k)] = UpdateEntry(@, newData, now)]
        ELSE setCacheEntry(Store, k,
               [key |-> k, data |-> newData, timestamp |-> now, error |-> NoError,
                fetcher |-> newData, options |-> DEFAULT_OPTIONS])
      revalidate == ShouldRevalidate(shouldRevalidate, existed)
      scheduled == IF revalidate
                   THEN Schedule(background, k, entry.fetcher, entry.options)
                   ELSE background
  IN /\ Cardinality(scheduled) <= MaxBg
     /\ cache' = written.cache
     /\ pollingTasks' = written.polling
     /\ background' = scheduled
     /\ obs' = [NoObs EXCEPT
                  !.notified = notify(written.cache, subscribers, k, NoError),
                  !.ret = [NoRet EXCEPT !.op = "mutate", !.key = k, !.data = newData,
                                        !.flag = existed /\ entry.error # NoError,
                                        !.updater = updater,
                                        !.revalidate = shouldRevalidate]]
     /\ UNCHANGED <<now, subscribers, inflightRequests, controllers, cancelledKeys,
                    requests, extAborted, listenerVars>>

\* mutate(key, data, shouldRevalidate) with a plain value
Mutate(k, newData, shouldRevalidate) ==
  MutateStep(k, newData, shouldRevalidate, "none")

\* The updater functions callers pass: one that maps the previous data to
\* the next value (to the first one when there is no data), one that throws.
Updaters == {"next", "throws"}

Throws(u, prevData) == u = "throws"

Apply(u, prevData) == (prevData % MaxVal) + 1

\* A mutate that stamps and notifies an existing entry before it calls the
\* updater.
MutateThrewAfterWrite(k, u, shouldRevalidate) ==
  LET touched == IF hasCacheEntry(cache, k)
                 THEN [cache EXCEPT ![KeyIndex(cache, k)].timestamp = now,
                                    ![KeyIndex(cache, k)].error = NoError]
                 ELSE cache
  IN /\ cache' = touched
     /\ obs' = [NoObs EXCEPT !.notified = notify(touched, subscribers, k, NoError),
                             !.ret = [NoRet EXCEPT !.op = "mutateThrew", !.key = k,
                                                  !.updater = u,
                                                  !.revalidate = shouldRevalidate]]
     /\ UNCHANGED <<now, pollingTasks, subscribers, inflightRequests,
                    controllers, cancelledKeys, requests, extAborted, listenerVars, background>>

\* The exception of the updater leaves mutate before anything is written.
MutateThrew(k, u, shouldRevalidate) ==
  /\ obs' = [NoObs EXCEPT !.ret = [NoRet EXCEPT !.op = "mutateThrew", !.key = k,
                                               !.updater = u,
                                               !.revalidate = shouldRevalidate]]
  /\ UNCHANGED <<now, cache, pollingTasks, subscribers, inflightRequests,
                 controllers, cancelledKeys, requests, extAborted, listenerVars, background>>

\* mutate(key, updater, shouldRevalidate) with an updater function
MutateWith(k, u, shouldRevalidate) ==
  LET prevData == IF hasCacheEntry(cache, k)
                  THEN getCacheEntry(cache, k).data
                  ELSE Undefined
  IN IF Throws(u, prevData)
     THEN MutateThrew(k, u, shouldRevalidate)
     ELSE MutateStep(k, Apply(u, prevData), shouldRevalidate, u)

\* setCacheEntry(key, entry) called on the store itself, with the timestamp
\* the caller put in the entry.
StoreWrite(k, v, ts) ==
  LET written == setCacheEntry(Store, k,
                   [key |-> k, data |-> v, timestamp |-> ts, error |-> NoError,
                    fetcher |-> UserFetcher, options |-> BaseOptions])
  IN /\ cache' = written.cache
     /\ pollingTasks' = written.polling
     /\ obs' = [NoObs EXCEPT !.ret = [NoRet EXCEPT !.op = "setCacheEntry", !.key = k,
                                                  !.data = v]]
     /\ UNCHANGED <<now, subscribers, inflightRequests, controllers, cancelledKeys,
                    requests, extAborted, listenerVars, background>>

\* setCacheEntry(key, entry) with an entry stamped Date.now() whose options
\* carry the given ttl.
StoreWriteTtl(k, v, ttl) ==
  LET written == setCacheEntry(Store, k,
                   [key |-> k, data |-> v, timestamp |-> now, error |-> NoError,
                    fetcher |-> UserFetcher,
                    options |-> [BaseOptions EXCEPT !.ttl = ttl]])
  IN /\ cache' = written.cache
     /\ pollingTasks' = written.polling
     /\ obs' = [NoObs EXCEPT !.ret = [NoRet EXCEPT !.op = "setCacheEntry", !.key = k,
                                                  !.data = v]]
     /\ UNCHANGED <<now, subscribers, inflightRequests, controllers, cancelledKeys,
                    requests, extAborted, listenerVars, background>>

\* setCacheEntry(key, entry) with an entry stamped Date.now() whose options
\* carry the given refreshInterval.
StoreWriteInterval(k, v, interval) ==
  LET written == setCacheEntry(Store, k,
                   [key |-> k, data |-> v, timestamp |-> now, error |-> NoError,
                    fetcher |-> UserFetcher,
                    options |-> [BaseOptions EXCEPT !.refreshInterval = interval]])
  IN /\ cache' = written.cache
     /\ pollingTasks' = written.polling
     /\ obs' = [NoObs EXCEPT !.ret = [NoRet EXCEPT !.op = "setCacheEntry", !.key = k,
                                                  !.data = v]]
     /\ UNCHANGED <<now, subscribers, inflightRequests, controllers, cancelledKeys,
                    requests, extAborted, listenerVars, background>>

\* deleteCacheEntry(key). flag: the key had a polling task.
DeleteCacheEntry(k) ==
  /\ pollingTasks' = stopPolling(pollingTasks, k)
  /\ cache' = MapDelete(cache, k)
  /\ obs' = [NoObs EXCEPT !.ret = [NoRet EXCEPT !.op = "deleteCacheEntry", !.key = k,
                                               !.flag = hasActivePolling(pollingTasks, k)]]
  /\ UNCHANGED <<now, subscribers, inflightRequests, controllers, cancelledKeys,
                 requests, extAborted, listenerVars, background>>

\* clearCache(key). flag: the key had a polling task.
ClearCache(k) ==
  /\ pollingTasks' = stopPolling(pollingTasks, k)
  /\ cache' = MapDelete(cache, k)
  /\ obs' = [NoObs EXCEPT !.ret = [NoRet EXCEPT !.op = "clearCache", !.key = k,
                                               !.flag = hasActivePolling(pollingTasks, k)]]
  /\ UNCHANGED <<now, subscribers, inflightRequests, controllers, cancelledKeys,
                 requests, extAborted, listenerVars, background>>

\* clearCache(): cleanupPolling(); cache.clear(). count: the polling tasks
\* there were.
ClearCacheAll ==
  /\ pollingTasks' = {}
  /\ cache' = <<>>
  /\ obs' = [NoObs EXCEPT !.ret = [NoRet EXCEPT !.op = "clearCacheAll",
                                               !.count = Cardinality(pollingTasks)]]
  /\ UNCHANGED <<now, subscribers, inflightRequests, controllers, cancelledKeys,
                 requests, extAborted, listenerVars, background>>

\* isExpired(getCacheEntry(key)). flag: the result.
IsExpiredCall(k) ==
  /\ hasCacheEntry(cache, k)
  /\ obs' = [NoObs EXCEPT !.ret = [NoRet EXCEPT !.op = "isExpired", !.key = k,
                                               !.flag = isExpired(getCacheEntry(cache, k), now)]]
  /\ UNCHANGED <<now, cache, pollingTasks, subscribers, inflightRequests, controllers,
                 cancelledKeys, requests, extAborted, listenerVars, background>>

\* evictOldestEntry() called on the store itself. flag: it evicted.
EvictOldest ==
  LET after == evictOldestEntry(Store)
  IN /\ cache' = after.cache
     /\ pollingTasks' = after.polling
     /\ obs' = [NoObs EXCEPT !.ret = [NoRet EXCEPT !.op = "evictOldestEntry",
                                                  !.flag = Len(after.cache) < Len(cache)]]
     /\ UNCHANGED <<now, subscribers, inflightRequests, controllers, cancelledKeys,
                    requests, extAborted, listenerVars, background>>

\* ensureCacheSize(maxSize) called on the store itself. flag: it evicted.
StoreEnsure(maxSize) ==
  LET trimmed == ensureCacheSize(Store, maxSize)
  IN /\ trimmed.now <= MaxTime
     /\ now' = trimmed.now
     /\ cache' = trimmed.cache
     /\ pollingTasks' = trimmed.polling
     /\ obs' = [NoObs EXCEPT !.ret = [NoRet EXCEPT !.op = "ensureCacheSize",
                                                  !.count = maxSize,
                                                  !.flag = Len(trimmed.cache) < Len(cache)]]
     /\ UNCHANGED <<subscribers, inflightRequests, controllers, cancelledKeys,
                    requests, extAborted, listenerVars, background>>

\* setCacheEntry(key, entry) with an entry stamped SeedAge ms in the past,
\* as the revalidation tests seed the cache.
SeedAge == 2000

StoreWriteAged(k, v, o) ==
  LET written == setCacheEntry(Store, k,
                   [key |-> k, data |-> v, timestamp |-> now - SeedAge,
                    error |-> NoError, fetcher |-> UserFetcher, options |-> o])
  IN /\ cache' = written.cache
     /\ pollingTasks' = written.polling
     /\ obs' = [NoObs EXCEPT !.ret = [NoRet EXCEPT !.op = "setCacheEntry", !.key = k,
                                                  !.data = v]]
     /\ UNCHANGED <<now, subscribers, inflightRequests, controllers, cancelledKeys,
                    requests, extAborted, listenerVars, background>>

\* revalidateAll: entries younger than this are left alone.
MinRevalidateAge == 1000

\* (revalidateOnFocus || revalidateOnReconnect) && entry.fetcher, and
\* currentTime - entry.timestamp > 1000. Every entry holds a fetcher.
Revalidates(e, t) ==
  /\ e.options.revalidateOnFocus \/ e.options.revalidateOnReconnect
  /\ t - e.timestamp > MinRevalidateAge

\* revalidateAll(): fetchWithDedup for every entry that qualifies, here for
\* caches in which at most one does. op names the event that called it. It
\* leaves the listeners' state to its caller.
revalidateAll(op) ==
  LET due == {i \in 1..Len(cache) : Revalidates(cache[i], now)}
  IN IF due = {}
     THEN /\ obs' = [NoObs EXCEPT !.ret = [NoRet EXCEPT !.op = op]]
          /\ UNCHANGED <<now, cache, pollingTasks, subscribers, inflightRequests,
                         controllers, cancelledKeys, requests, extAborted, background>>
     ELSE /\ Cardinality(due) = 1
          /\ LET e == cache[CHOOSE i \in due : TRUE]
             IN fetchWithDedup(e.key, e.fetcher, e.options, op)
          /\ UNCHANGED <<pollingTasks, background>>

\* The 'visibilitychange' listener with the document visible and the last
\* focus more than 5 s back.
VisibilityChange == revalidateAll("focus") /\ UNCHANGED listenerVars

\* The 'online' listener with the last reconnect more than 5 s back.
Online == revalidateAll("online") /\ UNCHANGED listenerVars

\* The debounce window of the focus and reconnect listeners.
DebounceInterval == 5000

\* A listener that lets a pass run when the window has just closed.
DebounceIncludesEnd(t, last) == t - last >= DebounceInterval

\* now - lastFocusTime > 5000, now - lastOnlineTime > 5000
DebounceOver(t, last) == t - last > DebounceInterval

\* The listener returned without a pass.
Debounced(op) ==
  /\ obs' = [NoObs EXCEPT !.ret = [NoRet EXCEPT !.op = op]]
  /\ UNCHANGED <<now, cache, pollingTasks, subscribers, inflightRequests, controllers,
                 cancelledKeys, requests, extAborted, listenerVars, background>>

\* The 'visibilitychange' listener of initAutoRevalidation with the document
\* visible.
FocusRegained ==
  IF DebounceOver(now, lastFocusTime)
  THEN /\ lastFocusTime' = now
       /\ revalidateAll("focus")
       /\ UNCHANGED <<isPageHidden, isOffline, lastOnlineTime, polled, subscriberKeys>>
  ELSE Debounced("focusDebounced")

\* The 'online' listener of initAutoRevalidation.
Reconnected ==
  IF DebounceOver(now, lastOnlineTime)
  THEN /\ lastOnlineTime' = now
       /\ revalidateAll("online")
       /\ UNCHANGED <<isPageHidden, isOffline, lastFocusTime, polled, subscriberKeys>>
  ELSE Debounced("onlineDebounced")

\* Half a debounce window passes, or a millisecond more.
ElapseSteps == {DebounceInterval \div 2, DebounceInterval \div 2 + 1}

Elapse(d) ==
  /\ now + d <= MaxDebounceTime
  /\ now' = now + d
  /\ obs' = NoObs
  /\ UNCHANGED <<cache, pollingTasks, subscribers, inflightRequests, controllers,
                 cancelledKeys, requests, extAborted, listenerVars, background>>

\* A polling timer that never pauses.
neverPausePolling(task, hidden, offline) == FALSE

\* shouldPausePolling(task)
shouldPausePolling(task, hidden, offline) ==
  \/ hidden /\ ~task.options.refreshWhenHidden
  \/ offline /\ ~task.options.refreshWhenOffline

\* A timer callback without the dedupingInterval test.
PolledAnyTime(task, t) == FALSE

\* now - task.lastPolledTime < (dedupingInterval || 0)
PolledRecently(task, t) == t - task.lastPolledTime < task.options.dedupingInterval

PollingTask(k) == CHOOSE t \in pollingTasks : t.key = k

\* The setInterval callback of startPolling(key, ..) runs and the timer is
\* armed for its next firing. ret.req: the request the callback's
\* fetchWithDedup call started or joined, NoReq when the callback returned
\* without calling it.
PollTick(k) ==
  /\ hasActivePolling(pollingTasks, k)
  /\ LET task == PollingTask(k)
         armed == [task EXCEPT !.intervalId = @ + task.options.refreshInterval]
     IN /\ now >= task.intervalId
        /\ IF \/ shouldPausePolling(task, isPageHidden, isOffline)
              \/ PolledRecently(task, now)
              \/ ~hasCacheEntry(cache, k)
           THEN /\ pollingTasks' = (pollingTasks \ {task}) \cup {armed}
                /\ obs' = [NoObs EXCEPT !.ret = [NoRet EXCEPT !.op = "poll", !.key = k]]
                /\ UNCHANGED <<now, cache, subscribers, inflightRequests, controllers,
                               cancelledKeys, requests, extAborted, listenerVars,
                               background>>
           ELSE /\ pollingTasks' = (pollingTasks \ {task})
                                     \cup {[armed EXCEPT !.lastPolledTime = now]}
                /\ polled' = [polled EXCEPT ![k] = [prev |-> @.last, last |-> now]]
                /\ LET e == getCacheEntry(cache, k)
                   IN fetchWithDedup(k, e.fetcher, e.options, "poll")
                /\ UNCHANGED <<isPageHidden, isOffline, lastFocusTime, lastOnlineTime,
                               subscriberKeys, background>>

\* Time passes until the polling timer of k is due.
PollDue(k) ==
  /\ hasActivePolling(pollingTasks, k)
  /\ PollingTask(k).intervalId > now
  /\ PollingTask(k).intervalId <= MaxPollTime
  /\ now' = PollingTask(k).intervalId
  /\ obs' = NoObs
  /\ UNCHANGED <<cache, pollingTasks, subscribers, inflightRequests, controllers,
                 cancelledKeys, requests, extAborted, listenerVars, background>>

\* handleVisibilityChange() after document.hidden changed to hidden.
\* resumeAllPolling clears isPaused, which the timer callback never reads.
handleVisibilityChange(hidden) ==
  /\ hidden # isPageHidden
  /\ isPageHidden' = hidden
  /\ pollingTasks' = IF hidden THEN pollingTasks
                     ELSE {[t EXCEPT !.isPaused = FALSE] : t \in pollingTasks}
  /\ obs' = NoObs
  /\ UNCHANGED <<now, cache, subscribers, inflightRequests, controllers,
                 cancelledKeys, requests, extAborted, isOffline, lastFocusTime,
                 lastOnlineTime, polled, subscriberKeys, background>>

\* handleOnlineStatusChange() after navigator.onLine changed to online.
handleOnlineStatusChange(online) ==
  /\ online = isOffline
  /\ isOffline' = ~online
  /\ pollingTasks' = IF online
                     THEN {[t EXCEPT !.isPaused = FALSE] : t \in pollingTasks}
                     ELSE pollingTasks
  /\ obs' = NoObs
  /\ UNCHANGED <<now, cache, subscribers, inflightRequests, controllers,
                 cancelledKeys, requests, extAborted, isPageHidden, lastFocusTime,
                 lastOnlineTime, polled, subscriberKeys, background>>

InSeq(q, x) == \E i \in 1..Len(q) : q[i] = x

\* The subscribers Map as [sets, keys]: sets[k] is the Set of a key in keys.
SubscriberMap == [sets |-> subscribers, keys |-> subscriberKeys]

\* subscribe(key, fn): a new Set for a key that has none, then Set.add
subscribe(m, k, fn) ==
  [sets |-> [m.sets EXCEPT ![k] = IF InSeq(@, fn) THEN @ ELSE Append(@, fn)],
   keys |-> m.keys \cup {k}]

\* An unsubscribe that leaves the emptied Set in the Map.
unsubscribeKeepingKey(m, k, fn) ==
  [m EXCEPT !.sets[k] = SelectSeq(@, LAMBDA x : x # fn)]

\* The function subscribe(key, fn) returned: Set.delete, and
\* subscribers.delete(key) when the Set is empty.
unsubscribe(m, k, fn) ==
  IF k \in m.keys
  THEN LET left == SelectSeq(m.sets[k], LAMBDA x : x # fn)
       IN [sets |-> [m.sets EXCEPT ![k] = left],
           keys |-> IF Len(left) = 0 THEN m.keys \ {k} ELSE m.keys]
  ELSE m

\* subscribe(key, fn)
Subscribe(k, fn) ==
  /\ subscribers' = subscribe(SubscriberMap, k, fn).sets
  /\ subscriberKeys' = subscribe(SubscriberMap, k, fn).keys
  /\ obs' = NoObs
  /\ UNCHANGED <<now, cache, pollingTasks, inflightRequests, controllers,
                 cancelledKeys, requests, extAborted, pageVars, background>>

\* The function subscribe(key, fn) returned, called while fn is subscribed.
Unsubscribe(k, fn) ==
  /\ InSeq(subscribers[k], fn)
  /\ subscribers' = unsubscribe(SubscriberMap, k, fn).sets
  /\ subscriberKeys' = unsubscribe(SubscriberMap, k, fn).keys
  /\ obs' = NoObs
  /\ UNCHANGED <<now, cache, pollingTasks, inflightRequests, controllers,
                 cancelledKeys, requests, extAborted, pageVars, background>>

\* subscribe(key, fn), observed. flag: fn was in the key's Set already.
SubscribeCall(k, fn) ==
  /\ subscribers' = subscribe(SubscriberMap, k, fn).sets
  /\ subscriberKeys' = subscribe(SubscriberMap, k, fn).keys
  /\ obs' = [NoObs EXCEPT !.ret = [NoRet EXCEPT !.op = "subscribe", !.key = k,
                                               !.sub = fn,
                                               !.flag = InSeq(subscribers[k], fn)]]
  /\ UNCHANGED <<now, cache, pollingTasks, inflightRequests, controllers,
                 cancelledKeys, requests, extAborted, pageVars, background>>

\* A function that a subscribe(key, fn) of the past returned is called,
\* observed, whether or not fn is still subscribed. flag: it was.
UnsubscribeCall(k, fn) ==
  /\ subscribers' = unsubscribe(SubscriberMap, k, fn).sets
  /\ subscriberKeys' = unsubscribe(SubscriberMap, k, fn).keys
  /\ obs' = [NoObs EXCEPT !.ret = [NoRet EXCEPT !.op = "unsubscribe", !.key = k,
                                               !.sub = fn,
                                               !.flag = InSeq(subscribers[k], fn)]]
  /\ UNCHANGED <<now, cache, pollingTasks, inflightRequests, controllers,
                 cancelledKeys, requests, extAborted, pageVars, background>>

\* Time passes until the retry timer of request id is due.
TimerDue(id) ==
  LET r == requests[id]
  IN /\ r.phase = "backoff"
     /\ r.wakeAt > now
     /\ r.wakeAt <= MaxWake
     /\ now' = r.wakeAt
     /\ obs' = NoObs
     /\ UNCHANGED <<cache, pollingTasks, subscribers, inflightRequests, controllers,
                    cancelledKeys, requests, extAborted, listenerVars, background>>

\* A millisecond passes.
Tick ==
  /\ now < MaxTime
  /\ now' = now + 1
  /\ obs' = NoObs
  /\ UNCHANGED <<cache, pollingTasks, subscribers, inflightRequests, controllers,
                 cancelledKeys, requests, extAborted, listenerVars, background>>

\* ---------------------------------------------------------------- specification
InitAt(t) ==
  /\ now = t
  /\ cache = <<>>
  /\ pollingTasks = {}
  /\ subscribers = [k \in Keys |-> <<>>]
  /\ subscriberKeys = {}
  /\ inflightRequests = [k \in Keys |-> NoReq]
  /\ controllers = [k \in Keys |-> NoReq]
  /\ cancelledKeys = {}
  /\ requests = [id \in ReqIds |-> IdleRequest]
  /\ extAborted = [s \in Signals |-> FALSE]
  /\ isPageHidden = FALSE
  /\ isOffline = FALSE
  /\ lastFocusTime = 0
  /\ lastOnlineTime = 0
  /\ polled = [k \in Keys |-> [prev |-> -1, last |-> -1]]
  /\ background = {}
  /\ obs = NoObs

Init == InitAt(0)

\* The fetch coordinator with its cancellation sources, on one key.
CoordKeys == {"a"}

Next ==
  \/ \E k \in CoordKeys, o \in CancelOptions : FetchNow(k, o)
  \/ \E id \in ReqIds, v \in Values : ProducerResolve(id, v)
  \/ \E id \in ReqIds, e \in Errors \cup {AbortError} : ProducerReject(id, e)
  \/ \E id \in ReqIds : BackoffElapsed(id)
  \/ \E id \in ReqIds : SettleCancelled(id)
  \/ \E id \in ReqIds : TimeoutFires(id)
  \/ \E s \in Signals : ExternalAbort(s)
  \/ \E k \in CoordKeys : Cancel(k)
  \/ CancelAll
  \/ \E k \in CoordKeys, fn \in Subs : Subscribe(k, fn)
  \/ \E k \in CoordKeys, fn \in Subs : Unsubscribe(k, fn)
  \/ Tick

Spec == Init /\ [][Next]_vars

\* Calls that join a pending request and calls that supersede it.
NextSupersede ==
  \/ \E k \in CoordKeys, o \in SupersedeOptions : FetchNow(k, o)
  \/ \E id \in ReqIds, v \in Values : ProducerResolve(id, v)
  \/ \E id \in ReqIds, e \in Errors \cup {AbortError} : ProducerReject(id, e)
  \/ \E k \in CoordKeys : Cancel(k)
  \/ Tick

SpecSupersede == Init /\ [][NextSupersede]_vars

\* The SWR entry point and the mutation API, with their background refreshes.
NextSwr ==
  \/ \E k \in CoordKeys, o \in SwrOptions : RevaliFetch(k, o)
  \/ \E t \in background : RunBackground(t)
  \/ \E k \in CoordKeys, v \in Values, b \in BOOLEAN : Mutate(k, v, b)
  \/ \E id \in ReqIds, v \in Values : ProducerResolve(id, v)
  \/ \E id \in ReqIds, e \in Errors : ProducerReject(id, e)
  \/ \E id \in ReqIds : BackoffElapsed(id)
  \/ \E k \in CoordKeys, fn \in Subs : Subscribe(k, fn)
  \/ Tick

SpecSwr == Init /\ [][NextSwr]_vars

\* The cache store on its own: writes and size enforcement over all keys.
NextLRU ==
  \/ \E k \in Keys, ts \in 0..MaxTime : StoreWrite(k, 1, ts)
  \/ \E m \in 1..MaxSize : StoreEnsure(m)
  \/ Tick

SpecLRU == Init /\ [][NextLRU]_vars

\* revaliFetch calls in a row on a key whose producer succeeds.
NextFresh ==
  \/ \E k \in CoordKeys, o \in FreshOptions : RevaliFetch(k, o)
  \/ \E t \in background : RunBackground(t)
  \/ \E id \in ReqIds, v \in Values : ProducerResolve(id, v)
  \/ Tick

SpecFresh == Init /\ [][NextFresh]_vars

\* Writes with and without a refreshInterval, and every way an entry leaves
\* the cache.
NextPolling ==
  \/ \E k \in Keys, i \in 0..MaxInterval : StoreWriteInterval(k, 1, i)
  \/ \E k \in Keys : DeleteCacheEntry(k)
  \/ \E k \in Keys : ClearCache(k)
  \/ ClearCacheAll
  \/ \E m \in 1..MaxSize : StoreEnsure(m)
  \/ Tick

SpecPolling == Init /\ [][NextPolling]_vars

\* Polled entries written by fetches, their timers, the page going hidden
\* and offline.
NextTimer ==
  \/ \E k \in CoordKeys, o \in PollOptions : FetchNow(k, o)
  \/ \E id \in ReqIds : ProducerResolve(id, 1)
  \/ \E id \in ReqIds : ProducerReject(id, 1)
  \/ \E k \in CoordKeys : PollDue(k)
  \/ \E k \in CoordKeys : PollTick(k)
  \/ \E hidden \in BOOLEAN : handleVisibilityChange(hidden)
  \/ \E online \in BOOLEAN : handleOnlineStatusChange(online)

SpecTimer == Init /\ [][NextTimer]_vars

\* Polled entries written by fetches that carried a caller's signal, the
\* caller aborting that signal at any time.
NextSignal ==
  \/ \E k \in CoordKeys, o \in SignalOptions : FetchNow(k, o)
  \/ \E id \in ReqIds : ProducerResolve(id, 1)
  \/ \E id \in ReqIds : ProducerReject(id, 1)
  \/ \E id \in ReqIds : SettleCancelled(id)
  \/ \E s \in Signals : ExternalAbort(s)
  \/ \E k \in CoordKeys : PollDue(k)
  \/ \E k \in CoordKeys : PollTick(k)

SpecSignal == Init /\ [][NextSignal]_vars

\* The mutation API with updater functions, on entries that fetches wrote.
NextMutate ==
  \/ \E k \in CoordKeys : FetchNow(k, BaseOptions)
  \/ \E id \in ReqIds, v \in Values : ProducerResolve(id, v)
  \/ \E id \in ReqIds, e \in Errors : ProducerReject(id, e)
  \/ \E k \in CoordKeys, u \in Updaters, b \in BOOLEAN : MutateWith(k, u, b)
  \/ \E t \in background : RunBackground(t)
  \/ \E k \in CoordKeys, fn \in Subs : Subscribe(k, fn)
  \/ Tick

SpecMutate == Init /\ [][NextMutate]_vars

\* Retries with their backoff waits in full length.
NextBackoff ==
  \/ \E k \in CoordKeys, o \in BackoffOptions : FetchNow(k, o)
  \/ \E id \in ReqIds, v \in Values : ProducerResolve(id, v)
  \/ \E id \in ReqIds, e \in Errors : ProducerReject(id, e)
  \/ \E id \in ReqIds : BackoffElapsed(id)
  \/ \E id \in ReqIds : TimerDue(id)
  \/ Tick

SpecBackoff == Init /\ [][NextBackoff]_vars

\* Entries with and without a ttl, and the expiry test at every age.
NextExpiry ==
  \/ \E k \in Keys, ttl \in 0..MaxTtl : StoreWriteTtl(k, 1, ttl)
  \/ \E k \in Keys : IsExpiredCall(k)
  \/ Tick

SpecExpiry == Init /\ [][NextExpiry]_vars

\* Fetches of several keys under a small maxCacheSize.
BoundKeys == {"a", "b"}

NextBound ==
  \/ \E k \in BoundKeys, o \in BoundOptions : FetchNow(k, o)
  \/ \E id \in ReqIds, v \in Values : ProducerResolve(id, v)
  \/ \E id \in ReqIds, e \in Errors : ProducerReject(id, e)
  \/ Tick

SpecBound == Init /\ [][NextBound]_vars

\* Two keys with their fetches, subscribers and polled entries, and the
\* cancellation registry used directly as well as through the fetches.
NextToken ==
  \/ \E k \in BoundKeys : FetchNow(k, TokenOptions)
  \/ \E id \in ReqIds : ProducerResolve(id, 1)
  \/ \E k \in BoundKeys : Cancel(k)
  \/ \E k \in BoundKeys : CreateToken(k)
  \/ \E id \in ReqIds : ReleaseToken(id)
  \/ \E k \in BoundKeys, fn \in Subs : Subscribe(k, fn)

SpecToken == Init /\ [][NextToken]_vars

\* Callbacks subscribing and unsubscribing, more than once, on two keys
\* that mutate writes and notifies.
AllSubs == Subs \cup ThrowingSubs

NextSubscribe ==
  \/ \E k \in BoundKeys, fn \in AllSubs : SubscribeCall(k, fn)
  \/ \E k \in BoundKeys, fn \in AllSubs : UnsubscribeCall(k, fn)
  \/ \E k \in BoundKeys : Mutate(k, 1, FALSE)

SpecSubscribe == Init /\ [][NextSubscribe]_vars

\* Fetches and background refreshes with the cache cleared under them.
NextClear ==
  \/ \E k \in CoordKeys, o \in ClearOptions : RevaliFetch(k, o)
  \/ \E t \in background : RunBackground(t)
  \/ \E k \in CoordKeys : ClearCache(k)
  \/ ClearCacheAll
  \/ \E id \in ReqIds, v \in Values : ProducerResolve(id, v)
  \/ \E id \in ReqIds, e \in Errors : ProducerReject(id, e)
  \/ Tick

SpecClear == Init /\ [][NextClear]_vars

\* Writes that notify a mix of well-behaved and throwing subscribers.
NextNotify ==
  \/ \E k \in CoordKeys : FetchNow(k, BaseOptions)
  \/ \E id \in ReqIds, v \in Values : ProducerResolve(id, v)
  \/ \E id \in ReqIds, e \in Errors : ProducerReject(id, e)
  \/ \E k \in CoordKeys, v \in Values : Mutate(k, v, FALSE)
  \/ \E k \in CoordKeys, fn \in Subs \cup ThrowingSubs : Subscribe(k, fn)
  \/ \E k \in CoordKeys, fn \in Subs \cup ThrowingSubs : Unsubscribe(k, fn)

SpecNotify == Init /\ [][NextNotify]_vars

\* Focus and reconnect events over entries with either option on or off.
NextRevalidate ==
  \/ \E k \in CoordKeys, o \in RevalidateOptions : StoreWriteAged(k, 1, o)
  \/ VisibilityChange
  \/ Online
  \/ \E id \in ReqIds, v \in Values : ProducerResolve(id, v)
  \/ \E id \in ReqIds, e \in Errors : ProducerReject(id, e)
  \/ Tick

SpecRevalidate == Init /\ [][NextRevalidate]_vars

\* Focus and reconnect events at any distance from each other, over an entry
\* old enough to be revalidated. The clock starts past the first window, as
\* Date.now() does.
NextDebounce ==
  \/ \E k \in CoordKeys : StoreWriteAged(k, 1, BaseOptions)
  \/ FocusRegained
  \/ Reconnected
  \/ \E d \in ElapseSteps : Elapse(d)
  \/ \E id \in ReqIds : ProducerResolve(id, 1)

InitDebounce == InitAt(StartTime)

SpecDebounce == InitDebounce /\ [][NextDebounce]_vars

\* Requests whose combined signal has one, two or three inputs, each input
\* aborted before or after the request was created, or never.
NextCombine ==
  \/ \E k \in CoordKeys, o \in CombineOptions : FetchNow(k, o)
  \/ \E id \in ReqIds : ProducerResolve(id, 1)
  \/ \E id \in ReqIds : SettleCancelled(id)
  \/ \E k \in CoordKeys : Cancel(k)
  \/ \E id \in ReqIds : TimeoutFires(id)
  \/ \E s \in Signals : ExternalAbort(s)
  \/ Tick

SpecCombine == Init /\ [][NextCombine]_vars

\* Retries, cancellation, supersession and cache trimming together, with the
\* scheduling the platform guarantees: a producer that was invoked settles,
\* a timer that is due fires, a rejected inner promise runs its continuation.
NextLive ==
  \/ \E k \in CoordKeys, o \in LiveOptions : FetchNowInTime(k, o)
  \/ \E id \in ReqIds : ProducerResolve(id, 1)
  \/ \E id \in ReqIds : ProducerReject(id, 1)
  \/ \E id \in ReqIds : BackoffElapsed(id)
  \/ \E id \in ReqIds : SettleCancelled(id)
  \/ \E k \in CoordKeys : Cancel(k)

SpecLive ==
  /\ Init /\ [][NextLive]_vars
  /\ \A id \in ReqIds :
       /\ WF_vars(ProducerResolve(id, 1) \/ ProducerReject(id, 1))
       /\ WF_vars(BackoffElapsed(id))
       /\ WF_vars(SettleCancelled(id))

\* Single evictions over entries stamped before, at and after the clock.
NextEvict ==
  \/ \E k \in Keys, ts \in 0..MaxTime : StoreWrite(k, 1, ts)
  \/ EvictOldest
  \/ Tick

SpecEvict == Init /\ [][NextEvict]_vars

\* ---------------------------------------------------------------- properties
Settled == {obs.settled[i] : i \in 1..Len(obs.settled)}

IsCancellation(outcome) ==
  outcome.kind = "rejected" /\ isCancellationError(outcome.error)

IsGenuineFailure(outcome) ==
  outcome.kind = "rejected" /\ ~isCancellationError(outcome.error)

\* C1 as stated: when further fetchWithDedup(k) calls (abortOnRevalidate off)
\* were issued while the first was pending, the producer was invoked exactly
\* once and every caller's promise settled with the same outcome.
C1_Claim ==
  \A s \in Settled : s.joins >= 1 => s.invocations = 1 /\ s.inner = s.outer

\* C1 amended: the calls that joined a pending request share its single
\* promise and never invoke the producer themselves; the producer is invoked
\* once per attempt of that one request (once, plus once per retried
\* failure, at most retries + 1 times) and every caller's promise settles
\* with the same outcome.
C1_SharedRequest ==
  /\ \A s \in Settled :
       s.joins >= 1 =>
         /\ s.inner = s.outer
         /\ s.invocations \in 1..(s.retries + 1)
         /\ s.invocations \in {s.attempt, s.attempt + 1}
         /\ (s.thrown = NoError => s.invocations = 1)
  /\ (obs.ret.op = "fetchWithDedup" /\ ~obs.ret.started) => obs.invoked = {}

\* Two calls shared a request whose first attempt failed and whose retry
\* resolved.
C1_Witness ==
  \E s \in Settled :
    s.joins >= 1 /\ s.invocations = 2 /\ s.outer.kind = "resolved"

\* C2 as stated: the step that ends a request whose composite signal was
\* aborted leaves the cache as it was and calls no subscriber, whatever the
\* producer did after the abort.
C2_Claim ==
  [][\A i \in 1..Len(obs'.settled) :
       obs'.settled[i].aborted => cache' = cache /\ obs'.notified = <<>>]_vars

\* C3: a revaliFetch(k) that finds a non-expired entry with data D returns D
\* in the same step, without starting, joining or awaiting a request, also
\* while a refresh of k is pending or after one has failed.
C3_FreshServed ==
  (obs.ret.op = "revaliFetch" /\ hasCacheEntry(cache, obs.ret.key)) =>
    LET e == getCacheEntry(cache, obs.ret.key)
    IN (e.data # Undefined /\ (e.options.ttl = 0 \/ now - e.timestamp <= e.options.ttl)) =>
         /\ obs.ret.flag
         /\ obs.ret.data = e.data
         /\ obs.ret.req = NoReq
         /\ obs.invoked = {}
         /\ obs.settled = <<>>

\* revaliFetch returned the data of an entry that carries the error of a
\* failed refresh, while another refresh of the key is pending.
C3_Witness ==
  /\ obs.ret.op = "revaliFetch"
  /\ obs.ret.flag
  /\ obs.ret.data # Undefined
  /\ inflightRequests[obs.ret.key] # NoReq
  /\ getCacheEntry(cache, obs.ret.key).error # NoError

\* C4: a request that was never aborted and whose producer failed on every
\* call with an ordinary error has invoked the producer retries + 1 times and
\* rejects with the error of the last invocation.
C4_RetriesExhausted ==
  \A s \in Settled :
    (~s.aborted /\ s.producer = "rejected" /\ s.thrown \in Errors) =>
      /\ s.invocations = s.retries + 1
      /\ s.inner = Rejected(s.thrown)
      /\ s.outer = Rejected(s.thrown)

\* A request with one retry failed twice, the second time with another error.
C4_Witness ==
  \E s \in Settled :
    /\ ~s.aborted /\ s.producer = "rejected" /\ s.thrown = 2
    /\ s.retries = 1 /\ s.invocations = 2
    /\ s.outer = Rejected(2)

\* The requests of key k whose producer is pending and whose signal is not
\* aborted.
Outstanding(k) ==
  {id \in ReqIds : /\ requests[id].phase = "fetching"
                   /\ requests[id].key = k
                   /\ ~requests[id].combined}

\* C5 as stated: in every reachable state each key has at most one
\* outstanding request, also when calls supersede a pending request.
C5_Claim == \A k \in Keys : Cardinality(Outstanding(k)) <= 1

\* C6 as stated: a request whose composite signal was aborted while its
\* producer was pending, and whose producer then resolved with a value, is
\* rejected with a cancellation error.
C6_Claim ==
  \A s \in Settled :
    (s.aborted /\ s.producer = "resolved") =>
      IsCancellation(s.inner) /\ IsCancellation(s.outer)

\* C7: no producer call is made for a request whose composite signal is
\* aborted; no request waits for a retry with an aborted signal; a request
\* that ends without its producer settling ends with a cancellation
\* rejection; and a request whose attempt fails after the abort is rejected
\* as cancelled while retries remain, without another attempt.
C7_NoAttemptAfterAbort ==
  /\ \A id \in obs.invoked : ~requests[id].combined
  /\ \A id \in ReqIds : requests[id].phase = "backoff" => ~requests[id].combined
  /\ \A s \in Settled :
       /\ s.producer = "none" =>
            s.aborted /\ s.inner = Rejected(CancellationError)
                      /\ s.outer = Rejected(CancellationError)
       /\ (s.aborted /\ s.producer = "rejected" /\ s.invocations <= s.retries) =>
            IsCancellation(s.outer)

\* A request with one retry left was aborted during its backoff wait and
\* ended as cancelled after a single producer call.
C7_Witness ==
  \E s \in Settled :
    /\ s.producer = "none" /\ s.aborted
    /\ s.invocations = 1 /\ s.retries = 1
    /\ IsCancellation(s.outer)

\* C8: the step that ends a request with a genuine error gives the entry of
\* its key that error and the current time as timestamp and leaves
\* everything else of the entry, its data included, as it was (when the key
\* had no entry, one with no data and the error is created), and calls each
\* subscriber of the key once, in order, with (that data, the error).
C8_ErrorRecorded ==
  [][\A i \in 1..Len(obs'.settled) :
       LET s == obs'.settled[i]
           k == s.key
           err == s.outer.error
           existing == IF hasCacheEntry(cache, k)
                       THEN getCacheEntry(cache, k).data
                       ELSE Undefined
       IN IsGenuineFailure(s.outer) =>
            /\ hasCacheEntry(cache', k)
            /\ getCacheEntry(cache', k).error = err
            /\ getCacheEntry(cache', k).timestamp = now'
            /\ getCacheEntry(cache', k).data = existing
            /\ hasCacheEntry(cache, k) =>
                 getCacheEntry(cache', k) =
                   [getCacheEntry(cache, k) EXCEPT !.error = err, !.timestamp = now']
            /\ obs'.notified =
                 [j \in 1..Len(subscribers[k]) |->
                    [key |-> k, sub |-> subscribers[k][j], data |-> existing,
                     error |-> err]]]_vars

\* A failed fetch left the data of an earlier success in the entry, next to
\* the error, and a subscriber was called with both.
C8_Witness ==
  \E s \in Settled :
    /\ IsGenuineFailure(s.outer)
    /\ getCacheEntry(cache, s.key).data # Undefined
    /\ getCacheEntry(cache, s.key).error = s.outer.error
    /\ Len(obs.notified) = 1
    /\ obs.notified[1].data = getCacheEntry(cache, s.key).data
    /\ obs.notified[1].error = s.outer.error

\* C9: right after a fetch resolved, and right after a mutate, the entry of
\* the key holds the new data and no error.
C9_SuccessClearsError ==
  /\ \A s \in Settled :
       s.outer.kind = "resolved" =>
         /\ hasCacheEntry(cache, s.key)
         /\ getCacheEntry(cache, s.key).data = s.outer.value
         /\ getCacheEntry(cache, s.key).error = NoError
  /\ obs.ret.op = "mutate" =>
       /\ hasCacheEntry(cache, obs.ret.key)
       /\ getCacheEntry(cache, obs.ret.key).data = obs.ret.data
       /\ getCacheEntry(cache, obs.ret.key).error = NoError

\* A fetch resolved for a key whose entry held an error.
C9_Witness ==
  \E s \in Settled :
    s.outer.kind = "resolved" /\ s.hadError /\ getCacheEntry(cache, s.key).error = NoError

Min(a, b) == IF a < b THEN a ELSE b

\* C10: ensureCacheSize(max) leaves at most max entries: all of them when
\* there were no more than max, otherwise max of them, each unchanged and
\* none with a timestamp older than that of an entry it removed.
C10_KeepsMostRecent ==
  [][obs'.ret.op = "ensureCacheSize" =>
       /\ Len(cache') <= obs'.ret.count
       /\ Len(cache') = Min(Len(cache), obs'.ret.count)
       /\ \A i \in 1..Len(cache') : InSeq(cache, cache'[i])
       /\ \A i \in 1..Len(cache) :
            ~InSeq(cache', cache[i]) =>
              \A j \in 1..Len(cache') : cache'[j].timestamp >= cache[i].timestamp]_vars

\* ensureCacheSize(1) evicted and kept only the entry of key a, whose
\* timestamp is the latest one there is.
C10_Witness ==
  /\ obs.ret.op = "ensureCacheSize"
  /\ obs.ret.flag
  /\ obs.ret.count = 1
  /\ Len(cache) = 1
  /\ cache[1].timestamp = 2
  /\ cache[1].key = "a"

\* C11 as stated: the step in which a fetch writes the cache (a success
\* write, or a failure that creates the entry of its key) leaves at most
\* maxCacheSize entries, maxCacheSize being that of the fetch.
C11_Claim ==
  [][\A i \in 1..Len(obs'.settled) :
       LET s == obs'.settled[i]
       IN (\/ s.outer.kind = "resolved"
           \/ (IsGenuineFailure(s.outer) /\ ~hasCacheEntry(cache, s.key))) =>
            Len(cache') <= requests[s.req].options.maxCacheSize]_vars

\* C12: isExpired reports an entry with ttl = T > 0 written at t0 expired
\* exactly at the check times t >= t0 + T + 1 (so not at any t <= t0 + T),
\* and never reports an entry with ttl = 0 expired.
C12_ExpiryBoundary ==
  obs.ret.op = "isExpired" =>
    LET e == getCacheEntry(cache, obs.ret.key)
    IN /\ (e.options.ttl = 0) => ~obs.ret.flag
       /\ (e.options.ttl > 0 /\ now >= e.timestamp + e.options.ttl + 1) => obs.ret.flag
       /\ (e.options.ttl > 0 /\ now <= e.timestamp + e.options.ttl) => ~obs.ret.flag

\* An entry is reported expired at the first millisecond past its ttl.
C12_Witness ==
  /\ obs.ret.op = "isExpired"
  /\ obs.ret.flag
  /\ getCacheEntry(cache, obs.ret.key).options.ttl > 0
  /\ now = getCacheEntry(cache, obs.ret.key).timestamp
             + getCacheEntry(cache, obs.ret.key).options.ttl + 1

\* 2^n for the retry numbers the requests reach.
TwoToThe(n) == IF n = 0 THEN 1 ELSE IF n = 1 THEN 2 ELSE IF n = 2 THEN 4 ELSE 8

\* C13: the wait a request starts before retry number k lasts
\* retryDelay * 2^(k-1) ms, and the producer call of retry k is not made
\* before that wait is over; with retries = 2 and retryDelay = 100 a request
\* whose producer fails twice and then resolves has made 3 producer calls and
\* has waited 100 and then 200 ms, so it resolves no earlier than 300 ms
\* after the clock's start.
C13_BackoffWaits ==
  [][/\ \A id \in ReqIds :
          LET r == requests[id]
              after == requests'[id]
          IN /\ (r.phase = "fetching" /\ after.phase = "backoff") =>
                  /\ after.attempt = r.attempt + 1
                  /\ after.attempt \in 1..r.options.retries
                  /\ after.delay = r.options.retryDelay * TwoToThe(after.attempt - 1)
                  /\ after.wakeAt = now + after.delay
             /\ (r.phase = "backoff" /\ after.phase = "fetching") =>
                  /\ now >= r.wakeAt
                  /\ after.invocations = r.invocations + 1
     /\ \A i \in 1..Len(obs'.settled) :
          LET s == obs'.settled[i]
          IN (s.outer.kind = "resolved" /\ s.attempt = 2
                /\ requests[s.req].options.retryDelay = 100) =>
               /\ s.invocations = 3
               /\ requests[s.req].delay = 200
               /\ now' >= 300]_vars

\* The producer failed twice and resolved on the third call, 300 ms after a
\* start at time 0.
C13_Witness ==
  \E s \in Settled :
    /\ s.outer.kind = "resolved"
    /\ s.retries = 2 /\ s.attempt = 2 /\ s.invocations = 3
    /\ now = 300

\* A revaliFetch call found the entry of its key with data and returned it.
ServedFromCache ==
  obs.ret.op = "revaliFetch" /\ obs.ret.flag

TasksOf(tasks, k) == {t \in tasks : t.key = k}

\* C15: a setCacheEntry for key k with refreshInterval > 0 leaves exactly
\* one polling task for k, the one of the entry just written; and whenever
\* the entry of k leaves the cache (clearCache(k), clearCache(),
\* deleteCacheEntry(k), eviction by ensureCacheSize) no polling task for k
\* is left in the same step.
C15_PollingFollowsCache ==
  [][/\ \A k \in Keys :
          (hasCacheEntry(cache, k) /\ ~hasCacheEntry(cache', k)) =>
            ~hasActivePolling(pollingTasks', k)
     /\ obs'.ret.op \in {"clearCache", "deleteCacheEntry"} =>
          /\ ~hasCacheEntry(cache', obs'.ret.key)
          /\ ~hasActivePolling(pollingTasks', obs'.ret.key)
     /\ obs'.ret.op = "clearCacheAll" => cache' = <<>> /\ pollingTasks' = {}
     /\ obs'.ret.op = "setCacheEntry" =>
          LET k == obs'.ret.key
              e == getCacheEntry(cache', k)
          IN e.options.refreshInterval > 0 =>
               TasksOf(pollingTasks', k) =
                 {[key |-> k, intervalId |-> now' + e.options.refreshInterval,
                   options |-> e.options, lastPolledTime |-> now',
                   isPaused |-> FALSE]}]_vars

\* clearCache(k) ended the polling of k and left the polling of another key
\* running.
C15_Witness ==
  /\ obs.ret.op = "clearCache"
  /\ obs.ret.flag
  /\ ~hasActivePolling(pollingTasks, obs.ret.key)
  /\ pollingTasks # {}

\* C16: a mutate whose updater throws leaves everything as it was: the
\* cache (the entry of k with its data, error and timestamp), the polling
\* tasks and the scheduled revalidations; it calls no subscriber and starts
\* no request.
C16_ThrowingUpdater ==
  [][obs'.ret.op = "mutateThrew" =>
       /\ cache' = cache
       /\ pollingTasks' = pollingTasks
       /\ background' = background
       /\ requests' = requests
       /\ inflightRequests' = inflightRequests
       /\ obs'.notified = <<>>
       /\ obs'.invoked = {}]_vars

\* The updater threw on a key that has an entry with an error, a subscriber
\* and shouldRevalidate = TRUE.
C16_Witness ==
  /\ obs.ret.op = "mutateThrew"
  /\ obs.ret.revalidate
  /\ hasCacheEntry(cache, obs.ret.key)
  /\ getCacheEntry(cache, obs.ret.key).error # NoError
  /\ getCacheEntry(cache, obs.ret.key).timestamp < now
  /\ subscribers[obs.ret.key] # <<>>
  /\ background = {}

\* C17: mutate(k, updater, false) on an entry with data P returns
\* updater(P), stores it as the entry's data (with the time of the call and
\* no error), calls each subscriber of k once with that value and no error,
\* invokes no producer and schedules no revalidation.
C17_MutateWithoutRevalidation ==
  [][(/\ obs'.ret.op = "mutate"
      /\ obs'.ret.updater # "none"
      /\ ~obs'.ret.revalidate
      /\ hasCacheEntry(cache, obs'.ret.key)
      /\ getCacheEntry(cache, obs'.ret.key).data # Undefined) =>
       LET k == obs'.ret.key
           before == getCacheEntry(cache, k)
           v == Apply(obs'.ret.updater, before.data)
       IN /\ obs'.ret.data = v
          /\ getCacheEntry(cache', k) =
               [before EXCEPT !.data = v, !.timestamp = now, !.error = NoError]
          /\ obs'.notified =
               [j \in 1..Len(subscribers[k]) |->
                  [key |-> k, sub |-> subscribers[k][j], data |-> v, error |-> NoError]]
          /\ obs'.invoked = {}
          /\ background' = background
          /\ requests' = requests
          /\ inflightRequests' = inflightRequests]_vars

\* An updater turned the data 1 of an entry into 2, the subscriber of the
\* key was called once with 2, and no revalidation is scheduled.
C17_Witness ==
  /\ obs.ret.op = "mutate"
  /\ obs.ret.updater = "next"
  /\ ~obs.ret.revalidate
  /\ obs.ret.data = 2
  /\ getCacheEntry(cache, obs.ret.key).data = 2
  /\ Len(obs.notified) = 1
  /\ obs.notified[1].data = 2
  /\ background = {}

\* No request of key k is in flight, or the one there is has been cancelled
\* already (its own controller is aborted).
NothingToCancel(k) ==
  \A id \in ReqIds :
    (Live(requests[id]) /\ requests[id].key = k) => requests[id].ctrl

\* C18: cancel(k) with no request of k in flight, or with one that was
\* cancelled already, returns false and changes nothing: no request is
\* aborted, and the registry, the cache, the in-flight map and the
\* subscribers stay as they were.
C18_CancelNothing ==
  [][(obs'.ret.op = "cancel" /\ NothingToCancel(obs'.ret.key)) =>
       /\ ~obs'.ret.flag
       /\ requests' = requests
       /\ controllers' = controllers
       /\ cancelledKeys' = cancelledKeys
       /\ cache' = cache
       /\ inflightRequests' = inflightRequests
       /\ subscribers' = subscribers
       /\ obs'.notified = <<>>]_vars

\* A second cancel(k) on a request that is still in the in-flight map after
\* the first cancel returned false.
C18_Witness ==
  /\ obs.ret.op = "cancel"
  /\ ~obs.ret.flag
  /\ inflightRequests[obs.ret.key] # NoReq
  /\ requests[inflightRequests[obs.ret.key]].ctrl
  /\ requests[inflightRequests[obs.ret.key]].phase = "fetching"
  /\ obs.ret.key \in cancelledKeys

\* C19: isCancelled(k) is sticky. Once cancel(k) or cancelAll() has aborted the
\* live token of k, isCancelled(k) is true, and it stays true in every later
\* step (the token's discard by cancel, its release by the request's finally
\* included) that does not create a new token for k; a step that creates a
\* new token for k leaves isCancelled(k) false.
TokenCreated(k) == obs'.ret.started /\ obs'.ret.key = k

TokenAborted(k) ==
  /\ controllers[k] # NoReq
  /\ ~requests[controllers[k]].ctrl
  /\ requests'[controllers[k]].ctrl

C19_CancelledIsSticky ==
  [][\A k \in Keys :
       /\ (TokenAborted(k) /\ ~TokenCreated(k)) => isCancelled(k)'
       /\ (isCancelled(k) /\ ~TokenCreated(k)) => isCancelled(k)'
       /\ TokenCreated(k) => ~isCancelled(k)']_vars

\* The key was cancelled, its token is discarded, its request has settled and
\* released the key, and the flag is still set.
C19_Witness ==
  \E k \in Keys :
    /\ isCancelled(k)
    /\ controllers[k] = NoReq
    /\ inflightRequests[k] = NoReq
    /\ \A id \in ReqIds : ~Live(requests[id])
    /\ obs.settled # <<>>

\* C20: after cancelRequest(k) is called for a key whose request was started
\* by fetchNow and is still in flight, isRequestCancelled(k) returns true.
InFlightUncancelled(k) ==
  /\ inflightRequests[k] # NoReq
  /\ Live(requests[inflightRequests[k]])
  /\ controllers[k] = inflightRequests[k]
  /\ ~requests[inflightRequests[k]].ctrl

C20_Claim ==
  [][\A k \in Keys :
       (obs'.ret.op = "cancel" /\ obs'.ret.key = k /\ InFlightUncancelled(k)) =>
         isRequestCancelled(k)']_vars

\* C21: clear() with fetches in flight cancels them: a promise that was
\* pending when clear() ran ends rejected. Stated for the requests that
\* settle in the step right after the clear(): they were pending when it ran.
C21_Claim ==
  [][(obs.ret.op = "clearCacheAll" /\ obs'.settled # <<>>) =>
       obs'.settled[1].outer.kind = "rejected"]_vars

\* C22: a subscriber that throws during the notification of key k is
\* isolated. In a step that writes k and notifies (a fetch that resolved or
\* failed with an ordinary error, a mutate) while a throwing subscriber is
\* registered for k, every subscriber of k is called exactly once, and the
\* write stays: the entry holds the data (or the error) the step wrote.
Calls(q, fn) == Cardinality({i \in 1..Len(q) : q[i].sub = fn})

WroteData(k, v) ==
  hasCacheEntry(cache', k) /\ getCacheEntry(cache', k).data = v
    /\ getCacheEntry(cache', k).error = NoError

C22_ThrowerIsolated ==
  [][\A k \in Keys :
       (\E i \in 1..Len(subscribers[k]) : SubscriberThrows(subscribers[k][i])) =>
         /\ (obs'.ret.op = "mutate" /\ obs'.ret.key = k) =>
              /\ \A i \in 1..Len(subscribers[k]) :
                   Calls(obs'.notified, subscribers[k][i]) = 1
              /\ Len(obs'.notified) = Len(subscribers[k])
              /\ WroteData(k, obs'.ret.data)
         /\ \A i \in 1..Len(obs'.settled) :
              LET s == obs'.settled[i]
              IN (s.key = k /\ ~IsCancellation(s.outer)) =>
                   /\ \A j \in 1..Len(subscribers[k]) :
                        Calls(obs'.notified, subscribers[k][j]) = 1
                   /\ Len(obs'.notified) = Len(subscribers[k])
                   /\ s.outer.kind = "resolved" => WroteData(k, s.outer.value)
                   /\ s.outer.kind = "rejected" =>
                        /\ hasCacheEntry(cache', k)
                        /\ getCacheEntry(cache', k).error = s.outer.error]_vars

\* A fetch resolved with a throwing subscriber registered first and a
\* well-behaved one after it: both were called, the entry holds the data.
C22_Witness ==
  \E s \in Settled :
    /\ s.outer.kind = "resolved"
    /\ Len(obs.notified) >= 2
    /\ SubscriberThrows(obs.notified[1].sub)
    /\ \E i \in 2..Len(obs.notified) : ~SubscriberThrows(obs.notified[i].sub)
    /\ getCacheEntry(cache, s.key).data = s.outer.value

\* C23: a focus-regained signal refetches an entry only if the entry's
\* revalidateOnFocus is true, and a network-reconnected signal only if its
\* revalidateOnReconnect is true.
C23_Claim ==
  [][\A k \in Keys :
       (obs'.ret.key = k /\ obs'.invoked # {}) =>
         /\ obs'.ret.op = "focus" => getCacheEntry(cache, k).options.revalidateOnFocus
         /\ obs'.ret.op = "online" =>
              getCacheEntry(cache, k).options.revalidateOnReconnect]_vars

\* C24: revaliFetch(k, producer, config) delegates to fetchWithDedup (the
\* caller is handed the promise of k's request: a new one whose producer is
\* invoked, or the pending one) exactly when k has no entry, or its entry is
\* expired, or its entry has no data; otherwise it returns the entry's data,
\* touches no request and schedules one background fetch for k.
C24_DelegatesOrServes ==
  [][obs'.ret.op = "revaliFetch" =>
       LET k == obs'.ret.key
           req == obs'.ret.req
           fresh == /\ hasCacheEntry(cache, k)
                    /\ getCacheEntry(cache, k).data # Undefined
                    /\ \/ getCacheEntry(cache, k).options.ttl = 0
                       \/ now - getCacheEntry(cache, k).timestamp
                            <= getCacheEntry(cache, k).options.ttl
       IN IF fresh
          THEN /\ obs'.ret.flag
               /\ obs'.ret.data = getCacheEntry(cache, k).data
               /\ req = NoReq
               /\ obs'.invoked = {}
               /\ requests' = requests
               /\ inflightRequests' = inflightRequests
               /\ \E o \in SwrOptions :
                    background' =
                      background \cup {[key |-> k, fetcher |-> UserFetcher, options |-> o]}
          ELSE /\ ~obs'.ret.flag
               /\ req # NoReq
               /\ inflightRequests'[k] = req
               /\ background' = background
               /\ IF inflightRequests[k] = NoReq
                  THEN obs'.ret.started /\ obs'.invoked = {req}
                  ELSE req = inflightRequests[k] /\ obs'.invoked = {}]_vars

\* revaliFetch found an entry that holds only an error and started a fetch.
C24_Witness ==
  /\ obs.ret.op = "revaliFetch"
  /\ obs.ret.started
  /\ obs.invoked = {obs.ret.req}
  /\ hasCacheEntry(cache, obs.ret.key)
  /\ getCacheEntry(cache, obs.ret.key).data = Undefined
  /\ getCacheEntry(cache, obs.ret.key).error # NoError
  /\ ~isExpired(getCacheEntry(cache, obs.ret.key), now)

\* C25: when a fetchWithDedup request of key k settles, whatever the outcome
\* (success, ordinary failure, cancellation), k is no longer in the in-flight
\* map and no token is registered for k, and the release aborts nothing: no
\* controller becomes aborted and no key becomes cancelled in that step. A
\* fetchWithDedup(k) made while k is not in the in-flight map starts a request
\* of its own and, unless the caller's signal is aborted already, invokes the
\* producer.
C25_SettleReleases ==
  [][/\ \A i \in 1..Len(obs'.settled) :
          /\ inflightRequests'[obs'.settled[i].key] = NoReq
          /\ controllers'[obs'.settled[i].key] = NoReq
          /\ \A id \in ReqIds : requests'[id].ctrl => requests[id].ctrl
          /\ cancelledKeys' = cancelledKeys
     /\ \A k \in Keys :
          (obs'.ret.op = "fetchWithDedup" /\ obs'.ret.key = k
             /\ inflightRequests[k] = NoReq) =>
            /\ obs'.ret.started
            /\ inflightRequests'[k] = obs'.ret.req
            /\ ~Live(requests[obs'.ret.req])
            /\ ~requests'[obs'.ret.req].combined =>
                 /\ obs'.invoked = {obs'.ret.req}
                 /\ requests'[obs'.ret.req].invocations = 1]_vars

\* A cancelled request has settled: the key is out of the in-flight map, no
\* token is registered, the key is still marked cancelled.
C25_Witness ==
  \E s \in Settled :
    /\ IsCancellation(s.outer)
    /\ s.key \in cancelledKeys
    /\ inflightRequests[s.key] = NoReq
    /\ controllers[s.key] = NoReq

\* C26: while a request that superseded another one (abortOnRevalidate) is
\* pending, it stays in the in-flight map and its token stays registered:
\* the settling of the superseded request removes neither.
C26_Claim ==
  [][\A i \in 1..Len(obs'.settled) :
       LET s == obs'.settled[i]
           newer == inflightRequests[s.key]
       IN (newer # NoReq /\ newer # s.req /\ Pending(requests[newer])
             /\ controllers[s.key] = newer) =>
            /\ inflightRequests'[s.key] = newer
            /\ controllers'[s.key] = newer]_vars

\* C27: after cancel(k) has returned true, the next fetchWithDedup(k) starts
\* a request of its own with its own producer invocation, also when the
\* cancelled request has not settled yet. (k is marked cancelled from the
\* cancel that returned true until the next request of k is created.)
C27_Claim ==
  [][\A k \in Keys :
       (obs'.ret.op = "fetchWithDedup" /\ obs'.ret.key = k /\ isCancelled(k)) =>
         /\ obs'.ret.started
         /\ obs'.invoked = {obs'.ret.req}
         /\ ~requests'[obs'.ret.req].ctrl]_vars

\* C28: after clearCache(k) or clearCache() has returned, k has no entry and
\* no polling task until a new revaliFetch, fetchWithDedup or mutate call for
\* k is made: a fetch that was in flight, or a background refresh that was
\* scheduled, when the clear ran does not bring them back. Stated for the
\* step that follows the clear.
C28_Claim ==
  [][(obs.ret.op \in {"clearCache", "clearCacheAll"}
        /\ obs'.ret.op \notin {"revaliFetch", "fetchWithDedup", "mutate"}) =>
       \A k \in Keys :
         (obs.ret.op = "clearCacheAll" \/ obs.ret.key = k) =>
           /\ ~hasCacheEntry(cache', k)
           /\ ~hasActivePolling(pollingTasks', k)]_vars

C30_Claim ==
  [][obs'.ret.op = "evictOldestEntry" =>
       IF cache = <<>>
       THEN cache' = cache
       ELSE \E i \in 1..Len(cache) :
              /\ \A j \in 1..Len(cache) : cache[i].timestamp <= cache[j].timestamp
              /\ \A j \in 1..(i - 1) : cache[i].timestamp < cache[j].timestamp
              /\ cache' = MapDelete(cache, cache[i].key)]_vars

\* ---------------------------------------------------------------- C31
\* The timer callback of k called fetchWithDedup in the last step.
Polls(k) == obs.ret.op = "poll" /\ obs.ret.key = k /\ obs.ret.req # NoReq

\* C31: when the polling timer of k calls fetchWithDedup, at least the
\* task's dedupingInterval has passed since the previous call made by a
\* polling timer of k, and since task.lastPolledTime, which for a task that
\* has not polled yet is the time the task was created.
C31_PollsAreSpaced ==
  [][\A k \in Keys :
       Polls(k)' =>
         LET task == PollingTask(k)
         IN /\ polled[k].last # -1 =>
                 now' - polled[k].last >= task.options.dedupingInterval
            /\ now' - task.lastPolledTime >= task.options.dedupingInterval]_vars

\* The timer of k polled twice, the second time exactly dedupingInterval
\* after the first, which is two firings of the timer later.
C31_Witness ==
  \E k \in Keys :
    /\ Polls(k)
    /\ polled[k].prev # -1
    /\ PollingTask(k).options.dedupingInterval = 2
    /\ PollingTask(k).options.refreshInterval = 1
    /\ polled[k].last - polled[k].prev = 2
\* ---------------------------------------------------------------- C32
\* C32: a firing of the polling timer of k while the page is hidden and the
\* task's refreshWhenHidden is false, or while the network is offline and the
\* task's refreshWhenOffline is false, calls no fetchWithDedup: no request is
\* started or joined and no producer is invoked.
C32_PausedTickIsIdle ==
  [][\A k \in Keys :
       (/\ obs'.ret.op = "poll"
        /\ obs'.ret.key = k
        /\ \/ isPageHidden /\ ~PollingTask(k).options.refreshWhenHidden
           \/ isOffline /\ ~PollingTask(k).options.refreshWhenOffline)
       => /\ obs'.ret.req = NoReq
          /\ obs'.invoked = {}
          /\ requests' = requests
          /\ inflightRequests' = inflightRequests]_vars

\* The timer of a task that pauses when hidden fired while the page was
\* hidden: the entry was there and no dedupingInterval was in the way, yet
\* the firing made no call.
C32_Witness ==
  \E k \in Keys :
    /\ obs.ret.op = "poll"
    /\ obs.ret.key = k
    /\ obs.ret.req = NoReq
    /\ isPageHidden
    /\ ~isOffline
    /\ hasCacheEntry(cache, k)
    /\ ~PollingTask(k).options.refreshWhenHidden
    /\ PollingTask(k).options.dedupingInterval = 0
\* ---------------------------------------------------------------- C33
\* C33 as stated: in every state, a key with a polling task has a cache
\* entry whose options have refreshInterval > 0.
C33_Claim ==
  \A k \in Keys :
    hasActivePolling(pollingTasks, k) =>
      /\ hasCacheEntry(cache, k)
      /\ getCacheEntry(cache, k).options.refreshInterval > 0
\* ---------------------------------------------------------------- C34
\* C34 as stated: when the polling timer of k starts a refresh of an entry
\* that was written by a call whose caller's signal has been aborted since,
\* and that call is over, the refresh invokes the producer.
C34_Claim ==
  [][\A k \in Keys :
       (/\ Polls(k)'
        /\ obs'.ret.started
        /\ hasCacheEntry(cache, k)
        /\ getCacheEntry(cache, k).options.signal # NoSignal
        /\ extAborted[getCacheEntry(cache, k).options.signal])
       => obs'.invoked # {}]_vars
\* ---------------------------------------------------------------- C35
\* C35: mutate(k, .., shouldRevalidate) invokes no producer itself. It leaves
\* one refresh of k behind, with the producer and the options of the entry k
\* had before the call, when shouldRevalidate is true and k had an entry; it
\* leaves none behind otherwise. The refresh, when it runs and starts a
\* request, starts it with that producer and those options.
C35_MutateRevalidation ==
  [][/\ obs'.ret.op = "mutate" =>
          LET k == obs'.ret.key
          IN /\ obs'.invoked = {}
             /\ requests' = requests
             /\ inflightRequests' = inflightRequests
             /\ background' =
                  IF obs'.ret.revalidate /\ hasCacheEntry(cache, k)
                  THEN background \cup
                         {[key |-> k, fetcher |-> getCacheEntry(cache, k).fetcher,
                           options |-> getCacheEntry(cache, k).options]}
                  ELSE background
     /\ \A t \in background :
          (obs'.ret.op = "background" /\ t \notin background' /\ obs'.ret.started) =>
            /\ requests'[obs'.ret.req].key = t.key
            /\ requests'[obs'.ret.req].fetcher = t.fetcher
            /\ requests'[obs'.ret.req].options = t.options
            /\ obs'.invoked = {obs'.ret.req}]_vars

\* The refresh a mutate left behind ran: it started a request with the
\* options of an entry a fetch had written and invoked the producer.
C35_Witness ==
  /\ obs.ret.op = "background"
  /\ obs.ret.started
  /\ obs.invoked = {obs.ret.req}
  /\ requests[obs.ret.req].fetcher = UserFetcher
  /\ requests[obs.ret.req].options = BaseOptions
\* ---------------------------------------------------------------- C36
\* C36: the controller registered for a key is never aborted, so a key has
\* at most one registered live controller; and create(k), called directly
\* or by a fetch that starts a request, leaves the controller that was
\* registered for k aborted, k without its cancelled
\* flag, and the new controller registered and not aborted.
C36_OneLiveToken ==
  [][/\ \A k \in Keys :
          controllers'[k] # NoReq =>
            /\ Live(requests'[controllers'[k]])
            /\ requests'[controllers'[k]].key = k
            /\ ~requests'[controllers'[k]].ctrl
            /\ Cardinality({id \in ReqIds : controllers'[k] = id}) = 1
     /\ \A k \in Keys :
          ((obs'.ret.op = "create" \/ obs'.ret.started) /\ obs'.ret.key = k) =>
            /\ controllers[k] # NoReq =>
                 /\ controllers[k] # obs'.ret.req
                 /\ requests'[controllers[k]].ctrl
            /\ k \notin cancelledKeys'
            /\ controllers'[k] = obs'.ret.req
            /\ ~requests'[obs'.ret.req].ctrl]_vars

\* create(k) was called a second time: the controller of the first call is
\* aborted and the one of the second call is registered.
C36_Witness ==
  \E k \in Keys, old \in ReqIds :
    /\ obs.ret.op = "create"
    /\ obs.ret.key = k
    /\ old # obs.ret.req
    /\ requests[old].phase = "token"
    /\ requests[old].key = k
    /\ requests[old].ctrl
    /\ controllers[k] = obs.ret.req
    /\ k \notin cancelledKeys
\* ---------------------------------------------------------------- C37
\* C37: cancel(k) leaves every other key as it was: its entry in the
\* in-flight map, its registered controller, its cancelled flag, its cache
\* entry, its polling task, its subscribers and every request of it, aborted
\* flags included. A request whose signal is not aborted and whose producer
\* resolves with v settles with v and stores v, whatever keys are cancelled.
C37_CancelIsKeyScoped ==
  [][/\ \A k \in Keys :
          (obs'.ret.op = "cancel" /\ obs'.ret.key = k) =>
            /\ \A j \in Keys \ {k} :
                 /\ inflightRequests'[j] = inflightRequests[j]
                 /\ controllers'[j] = controllers[j]
                 /\ (j \in cancelledKeys') = (j \in cancelledKeys)
                 /\ subscribers'[j] = subscribers[j]
                 /\ TasksOf(pollingTasks', j) = TasksOf(pollingTasks, j)
                 /\ hasCacheEntry(cache', j) = hasCacheEntry(cache, j)
                 /\ hasCacheEntry(cache, j) =>
                      getCacheEntry(cache', j) = getCacheEntry(cache, j)
            /\ \A id \in ReqIds :
                 requests[id].key # k => requests'[id] = requests[id]
     /\ \A id \in ReqIds :
          (/\ requests[id].phase = "fetching"
           /\ ~requests[id].combined
           /\ obs'.settled # <<>>
           /\ obs'.settled[1].req = id
           /\ obs'.settled[1].producer = "resolved") =>
            /\ obs'.settled[1].outer.kind = "resolved"
            /\ hasCacheEntry(cache', requests[id].key)
            /\ getCacheEntry(cache', requests[id].key).data =
                 obs'.settled[1].outer.value]_vars

\* cancel(k) aborted the request of k while another key had a cache entry,
\* a polling task, a subscriber and a request in flight; that request is
\* not aborted.
C37_Witness ==
  \E k \in Keys, j \in Keys :
    /\ j # k
    /\ obs.ret.op = "cancel"
    /\ obs.ret.key = k
    /\ obs.ret.flag
    /\ inflightRequests[k] # NoReq
    /\ requests[inflightRequests[k]].ctrl
    /\ inflightRequests[j] # NoReq
    /\ ~requests[inflightRequests[j]].combined
    /\ controllers[j] = inflightRequests[j]
    /\ hasCacheEntry(cache, j)
    /\ hasActivePolling(pollingTasks, j)
    /\ subscribers[j] # <<>>
\* ---------------------------------------------------------------- C38
Occurrences(q, x) == Cardinality({i \in 1..Len(q) : q[i] = x})

\* C38: the Map holds a Set exactly for the keys that have a subscriber, and
\* no Set holds a callback twice. After subscribe(k, fn) the Set of k holds
\* fn once, and is as before if fn was in it. After an unsubscribe of fn
\* from k, the first or a repeated one, the Set of k holds the other
\* callbacks as before and not fn, and k has left the Map if no callback is
\* left. A notification calls every callback of the key once.
C38_SubscribersAreASet ==
  [][/\ \A k \in Keys :
          /\ (k \in subscriberKeys') = (Len(subscribers'[k]) > 0)
          /\ \A fn \in AllSubs : Occurrences(subscribers'[k], fn) <= 1
     /\ obs'.ret.op = "subscribe" =>
          /\ Occurrences(subscribers'[obs'.ret.key], obs'.ret.sub) = 1
          /\ obs'.ret.flag => subscribers' = subscribers
     /\ obs'.ret.op = "unsubscribe" =>
          /\ subscribers' =
               [subscribers EXCEPT
                  ![obs'.ret.key] = SelectSeq(@, LAMBDA x : x # obs'.ret.sub)]
          /\ Len(subscribers'[obs'.ret.key]) = 0 => obs'.ret.key \notin subscriberKeys'
          /\ ~obs'.ret.flag => subscriberKeys' = subscriberKeys
     /\ obs'.ret.op = "mutate" =>
          \A fn \in AllSubs :
            Cardinality({i \in 1..Len(obs'.notified) : obs'.notified[i].sub = fn})
              = Occurrences(subscribers[obs'.ret.key], fn)]_vars

\* A repeated unsubscribe: the callback was not subscribed any more, the key
\* had left the Map with it, and another key still has its subscribers.
C38_Witness ==
  \E j \in Keys :
    /\ obs.ret.op = "unsubscribe"
    /\ ~obs.ret.flag
    /\ obs.ret.key \notin subscriberKeys
    /\ j \in subscriberKeys
    /\ Len(subscribers[j]) = 2
\* ---------------------------------------------------------------- C39
\* C39: lastFocusTime is the time of the last revalidation pass a
\* focus-regained event started, lastOnlineTime that of the last pass a
\* reconnect event started, and a pass starts only when more than
\* DebounceInterval ms have passed since the previous pass of its kind.
C39_PassesAreDebounced ==
  [][/\ IF obs'.ret.op = "focus"
        THEN now' - lastFocusTime > DebounceInterval /\ lastFocusTime' = now'
        ELSE lastFocusTime' = lastFocusTime
     /\ IF obs'.ret.op = "online"
        THEN now' - lastOnlineTime > DebounceInterval /\ lastOnlineTime' = now'
        ELSE lastOnlineTime' = lastOnlineTime]_vars

\* A focus-regained event came exactly DebounceInterval ms after the pass
\* before it and started no pass.
C39_Witness ==
  /\ obs.ret.op = "focusDebounced"
  /\ lastFocusTime >= StartTime
  /\ now - lastFocusTime = DebounceInterval
\* ---------------------------------------------------------------- C40
\* C40: the combined signal of a request is aborted exactly when one of its
\* inputs is: the request's own controller, its timeout signal if it has one,
\* the caller's signal if one was passed.
C40_CombinedIffAnInput ==
  \A id \in ReqIds :
    LET r == requests[id]
    IN (Live(r) /\ r.phase # "token") =>
         (r.combined <=>
            \/ r.ctrl
            \/ r.deadline # 0 /\ r.tsig
            \/ r.options.signal # NoSignal /\ extAborted[r.options.signal])

\* A request with all three inputs whose producer was invoked, so that no
\* input was aborted when the signals were combined: the caller's signal
\* alone has been aborted since, and the combined signal is aborted.
C40_Witness ==
  \E id \in ReqIds :
    /\ requests[id].phase = "fetching"
    /\ requests[id].deadline # 0
    /\ requests[id].options.signal # NoSignal
    /\ extAborted[requests[id].options.signal]
    /\ ~requests[id].ctrl
    /\ ~requests[id].tsig
    /\ requests[id].combined
====
